---- MODULE Spec2Model ----
(***************************************************************************)
(* The unified conversation state machine of the repository: the graph    *)
(* built by graph_builder.create_conversation_graph over the nodes of     *)
(* nodes.py, with the helpers of utilities.py, validation.py and tools.py *)
(* that those nodes call.                                                  *)
(*                                                                         *)
(* Texts (message contents, user input, LLM output, outcome summaries)    *)
(* are sequences of tokens; the token " " stands for a run of whitespace. *)
(* Names compared for equality (tool names, node names, next_action) are  *)
(* single tokens, i.e. TLA+ strings.                                       *)
(***************************************************************************)
EXTENDS Integers, Sequences, FiniteSets, TLC

VARIABLES
    state,                \* the ConversationState threaded through the nodes
    pc,                   \* the graph node that runs next
    translation_enabled,  \* config["translation"]["enabled"]
    llm_response,         \* text the decision LLM returned to the last decision_router run
    turns,                \* number of user inputs handed to the graph so far
    trace,                \* nodes executed since the current turn's input arrived
    streak,               \* the tool the router chose last and for how many turns running
    call                  \* arguments and result of a helper called on its own

vars == <<state, pc, translation_enabled, llm_response, turns, trace, streak, call>>

\* ------------------------------------------------------------------ bounds
MaxTurns == 2

\* fields of a schema handed to validate_against_schema on its own
MaxFields == 2

\* turns of the long conversation
LoopTurns == 4

\* exit conditions configured for exit_evaluator called on its own
MaxConditions == 2

\* requests sent to the multi-session server
MaxRequests == 3

\* ------------------------------------------------------------------ texts
WS == " "

RECURSIVE LStrip(_)
LStrip(t) == IF t = <<>> THEN <<>>
             ELSE IF Head(t) = WS THEN LStrip(Tail(t)) ELSE t

RECURSIVE RStrip(_)
RStrip(t) == IF t = <<>> THEN <<>>
             ELSE IF t[Len(t)] = WS THEN RStrip(SubSeq(t, 1, Len(t) - 1)) ELSE t

\* str.strip()
Strip(t) == RStrip(LStrip(t))

\* `name in text` for a one-token name
Contains(name, text) == \E i \in DOMAIN text : text[i] = name

\* str.lower() on the tokens that occur as decisions or tool names
Lower(s) ==
    CASE s = "Web_Search" -> "web_search"
      [] s = "END"        -> "end"
      [] s = "OR"         -> "or"
      [] s = "Decision:"  -> "decision:"
      [] s = "DECISION:"  -> "decision:"
      [] OTHER            -> s

\* a local assigned once: Body applied to the value of an expression that
\* is evaluated a single time
With(value, Body(_)) == CHOOSE result \in {Body(v) : v \in {value}} : TRUE

\* Python truthiness of a str / list / dict value
Truthy(v) == v # <<>>

\* ------------------------------------------------------------------ dicts
\* A dict is a function whose DOMAIN is its key set.
EmptyDict == [k \in {} |-> <<>>]

DictGet(d, k) == IF k \in DOMAIN d THEN d[k] ELSE <<>>

HasValue(d, k) == k \in DOMAIN d

\* ------------------------------------------------------------------ config
StrField(n, req, fmt) ==
    [name |-> n, type |-> "string", required |-> req, format |-> fmt]

\* config["tools"]: web_search declares its schema as a JSON-Schema-like
\* object, contact_form as a flat field list; mailer is configured but
\* disabled.
Tools == <<
    [name |-> "web_search", type |-> "retrieval", impl |-> "web_search",
     enabled |-> TRUE,
     input_schema |-> [kind |-> "object",
                       properties |-> <<[name |-> "query",
                                         spec |-> [type |-> "string", format |-> "none"]]>>,
                       required |-> {"query"}]],
    [name |-> "contact_form", type |-> "input", impl |-> "sheets",
     enabled |-> TRUE,
     input_schema |-> [kind |-> "list",
                       fields |-> <<StrField("email", TRUE, "email")>>]],
    [name |-> "mailer", type |-> "input", impl |-> "email",
     enabled |-> FALSE,
     input_schema |-> [kind |-> "list",
                       fields |-> <<StrField("email", TRUE, "email")>>]]
>>

\* graph_builder: names of the enabled tools
tool_names == {Tools[i].name : i \in {j \in DOMAIN Tools : Tools[j].enabled}}

\* tools.AVAILABLE_TOOLS
AVAILABLE_TOOLS == {"sheets", "web_search", "tavily", "api_retrieval"}

\* index of the first tool satisfying P, 0 if none
FirstTool(P(_)) ==
    IF \E i \in DOMAIN Tools : P(Tools[i])
    THEN CHOOSE i \in DOMAIN Tools :
            P(Tools[i]) /\ \A j \in 1..(i - 1) : ~P(Tools[j])
    ELSE 0

\* normalize_input_schema marking every property of an object as required
normalize_input_schema_all_required(input_schema) ==
    IF input_schema.kind = "list" THEN input_schema.fields
    ELSE IF input_schema.kind = "object"
    THEN [i \in DOMAIN input_schema.properties |->
            [name     |-> input_schema.properties[i].name,
             type     |-> input_schema.properties[i].spec.type,
             required |-> TRUE,
             format   |-> input_schema.properties[i].spec.format]]
    ELSE <<>>

\* utilities.normalize_input_schema
normalize_input_schema(input_schema) ==
    IF input_schema.kind = "list" THEN input_schema.fields
    ELSE IF input_schema.kind = "object"
    THEN [i \in DOMAIN input_schema.properties |->
            [name     |-> input_schema.properties[i].name,
             type     |-> input_schema.properties[i].spec.type,
             required |-> input_schema.properties[i].name \in input_schema.required,
             format   |-> input_schema.properties[i].spec.format]]
    ELSE <<>>

\* utilities.get_selected_tool_config: [name, cfg] with cfg = 0 for None
get_selected_tool_config(st) ==
    LET preferred == IF st.chosen_tool # "" THEN st.chosen_tool ELSE st.next_action
        IsPreferred(t) == t.name = preferred /\ t.enabled
        IsEnabled(t) == t.enabled
        i == FirstTool(IsPreferred)
        j == FirstTool(IsEnabled)
    IN  IF preferred # "" /\ i # 0 THEN [name |-> preferred, cfg |-> i]
        ELSE IF j # 0 THEN [name |-> Tools[j].name, cfg |-> j]
        ELSE [name |-> preferred, cfg |-> 0]

\* utilities.get_tool_category
get_tool_category(tool_name) ==
    LET Named(t) == t.name = tool_name
        i == FirstTool(Named)
    IN  IF i # 0 THEN Tools[i].type ELSE "input"

\* the normalized schema of the tool a node resolves from the state
SchemaFor(st) ==
    LET sel == get_selected_tool_config(st)
    IN  IF sel.cfg = 0 THEN <<>> ELSE normalize_input_schema(Tools[sel.cfg].input_schema)

\* ------------------------------------------------------------------ state
\* node names as log_node_execution receives them
NodeLabels == {"WAIT_USER_INPUT", "INPUT_TRANSLATION", "DECISION_ROUTER", "CHAT_NODE",
               "STRUCTURED_EXTRACTOR", "VALIDATE_INPUTS", "TOOL_EXECUTION",
               "TOOL_ANSWER", "OUTPUT_TRANSLATION", "EXIT_EVALUATOR", "END"}

\* track_action keeps the last HistoryLimit records
HistoryLimit == 5

\* decision_router_node looks at the last RecentWindow records
RecentWindow == 3

Msg(role, content) == [role |-> role, content |-> content]

\* the state the host starts a conversation with
InitialState ==
    [messages               |-> <<>>,
     user_input             |-> <<>>,
     extracted_data         |-> EmptyDict,
     tool_result            |-> EmptyDict,
     last_tool_summary      |-> <<>>,
     next_action            |-> "",
     chosen_tool            |-> "",
     tool_category          |-> "",
     error_message          |-> <<>>,
     conversation_active    |-> TRUE,
     decision_justification |-> <<>>,
     action_history         |-> <<>>,
     validation_errors      |-> <<>>]

\* dict.get(key) on a tool_result envelope, FALSE / <<>> standing for None
ResultSuccess(r) == IF "success" \in DOMAIN r THEN r.success ELSE FALSE
ResultError(r) == IF "error" \in DOMAIN r THEN r.error ELSE <<"Unknown error">>
ResultMessage(r, dflt) == IF "message" \in DOMAIN r THEN r.message ELSE dflt

\* ", ".join(list of texts)
RECURSIVE Join(_, _)
Join(sep, texts) ==
    IF texts = <<>> THEN <<>>
    ELSE IF Len(texts) = 1 THEN texts[1]
    ELSE texts[1] \o <<sep>> \o Join(sep, Tail(texts))

\* the keys of a dict as a list (schema order of the known field names)
FieldOrder == <<"query", "email">>

KeyList(d) == SelectSeq(FieldOrder, LAMBDA k : k \in DOMAIN d)

\* utilities.summarize_outcome
summarize_outcome(old_state, new_state, node_name) ==
    CASE node_name = "STRUCTURED_EXTRACTOR" ->
            IF new_state.extracted_data # EmptyDict
               /\ Cardinality(DOMAIN new_state.extracted_data)
                    > Cardinality(DOMAIN old_state.extracted_data)
            THEN <<"Extracted", WS>> \o KeyList(new_state.extracted_data)
            ELSE <<"No new data extracted">>
      [] node_name = "VALIDATE_INPUTS" ->
            IF new_state.validation_errors # <<>>
            THEN <<"Validation failed:", WS>> \o Join(", ", new_state.validation_errors)
            ELSE <<"Validation passed">>
      [] node_name = "TOOL_EXECUTION" ->
            IF ResultSuccess(new_state.tool_result)
            THEN <<"Tool executed successfully:", WS>>
                    \o ResultMessage(new_state.tool_result, <<"Operation completed">>)
            ELSE <<"Tool execution failed:", WS>> \o ResultError(new_state.tool_result)
      [] node_name = "CHAT_NODE" ->
            IF new_state.messages # <<>>
               /\ new_state.messages[Len(new_state.messages)].role = "assistant"
            THEN <<"Generated response:", WS>>
                    \o new_state.messages[Len(new_state.messages)].content
            ELSE <<"No response generated">>
      [] OTHER -> <<"Node", WS, node_name, WS, "completed">>

\* list[-n:]
LastN(s, n) == IF Len(s) > n THEN SubSeq(s, Len(s) - n + 1, Len(s)) ELSE s

\* track_action keeping every record
track_action_unbounded(node_name, old_state, new_state) ==
    [new_state EXCEPT !.action_history =
        Append(old_state.action_history,
               [step      |-> Len(old_state.action_history) + 1,
                node      |-> node_name,
                outcome   |-> summarize_outcome(old_state, new_state, node_name),
                timestamp |-> Len(new_state.messages)])]

\* utilities.track_action, as called by log_node_execution: the state the
\* node returns, with the new record appended to the old state's history
track_action(node_name, old_state, new_state) ==
    LET action_history == old_state.action_history
        action_record == [step      |-> Len(action_history) + 1,
                          node      |-> node_name,
                          outcome   |-> summarize_outcome(old_state, new_state, node_name),
                          timestamp |-> Len(new_state.messages)]
        appended == Append(action_history, action_record)
    IN  [new_state EXCEPT !.action_history =
            IF Len(appended) > HistoryLimit THEN LastN(appended, HistoryLimit)
            ELSE appended]

\* utilities.log_node_execution (printing left out)
log_node_execution(node_name, old_state, new_state) ==
    With(new_state, LAMBDA returned : track_action(node_name, old_state, returned))

\* ------------------------------------------------------- decision router
DecisionMarkers == {"DECISION:", "Decision:", "decision:"}

\* the tokens [\w\-_]+ can match
IsWord(tok) == tok \notin {WS, "-", "I think", "not sure"} \cup DecisionMarkers

\* \s* from position i: the first position at or after i that is not whitespace
RECURSIVE SkipWS(_, _)
SkipWS(t, i) == IF i <= Len(t) /\ t[i] = WS THEN SkipWS(t, i + 1) ELSE i

\* re.search(r"DECISION:\s*([\w\-_]+)\s*-\s*(.*)", text, re.IGNORECASE) at position i
MatchAt(t, i) ==
    LET j == SkipWS(t, i + 1)
        k == SkipWS(t, j + 1)
    IN  /\ Lower(t[i]) = "decision:"
        /\ j <= Len(t) /\ IsWord(t[j])
        /\ k <= Len(t) /\ t[k] = "-"

ReSearch(t) ==
    IF \E i \in DOMAIN t : MatchAt(t, i)
    THEN LET i == CHOOSE x \in DOMAIN t :
                    MatchAt(t, x) /\ \A y \in 1..(x - 1) : ~MatchAt(t, y)
             j == SkipWS(t, i + 1)
             k == SkipWS(t, j + 1)
             g == SkipWS(t, k + 1)
         IN  [matched |-> TRUE, group1 |-> t[j], group2 |-> SubSeq(t, g, Len(t))]
    ELSE [matched |-> FALSE, group1 |-> "", group2 |-> <<>>]

\* nodes.decision_router_node lines 703-715: the loop guard
repeated_tool(chosen_tool, action_history) ==
    LET recent == IF Len(action_history) >= RecentWindow
                  THEN LastN(action_history, RecentWindow) ELSE action_history
        decisions == SelectSeq(recent, LAMBDA a : a.node = "DECISION_ROUTER")
    IN  /\ chosen_tool # "" /\ recent # <<>>
        /\ Len(decisions) >= 2
        /\ \A i \in DOMAIN decisions : Contains(chosen_tool, decisions[i].outcome)

\* parse_decision without the default: an unparsable text leaves no decision
parse_decision_no_default(response) ==
    LET match == ReSearch(response)
    IN  IF match.matched
        THEN [next_action |-> match.group1, justification |-> Strip(match.group2)]
        ELSE [next_action |-> "", justification |-> Strip(response)]

\* parse_decision dropping the text it could not parse
parse_decision_drop_text(response) ==
    LET match == ReSearch(response)
    IN  IF match.matched
        THEN [next_action |-> match.group1, justification |-> Strip(match.group2)]
        ELSE [next_action |-> "chat", justification |-> <<>>]

\* nodes.decision_router_node lines 682-691: the decision and its reason
parse_decision(response) ==
    LET match == ReSearch(response)
    IN  IF match.matched
        THEN [next_action |-> match.group1, justification |-> Strip(match.group2)]
        ELSE [next_action |-> "chat", justification |-> Strip(response)]

\* resolve_tool comparing the names as they are written
resolve_tool_case_sensitive(next_action) ==
    LET Matches(t) == t.name # "" /\ t.name = next_action
    IN  FirstTool(Matches)

\* nodes.decision_router_node lines 693-701: the configured tool the
\* decision names, as an index into Tools, 0 if none
resolve_tool(next_action) ==
    LET Matches(t) == t.name # "" /\ Lower(t.name) = Lower(next_action)
    IN  FirstTool(Matches)

\* nodes.decision_router_node lines 693-733: the state returned for the
\* parsed decision
route_decision(st, parsed) ==
    LET ti == resolve_tool(parsed.next_action)
        repeated == ti # 0 /\ repeated_tool(Tools[ti].name, st.action_history)
        chosen_tool == IF ti # 0 /\ ~repeated THEN Tools[ti].name ELSE ""
        tool_category == IF ti # 0 /\ ~repeated THEN Tools[ti].type ELSE ""
        next_action == IF repeated THEN "chat" ELSE parsed.next_action
    IN  [st EXCEPT
            !.next_action = IF chosen_tool # "" THEN chosen_tool ELSE next_action,
            !.decision_justification = parsed.justification,
            !.chosen_tool = IF chosen_tool # "" THEN chosen_tool ELSE st.chosen_tool,
            !.tool_category = IF tool_category # "" THEN tool_category ELSE st.tool_category]

\* nodes.decision_router_node
decision_router_node(st, response) ==
    LET new_state == With(parse_decision(response),
                          LAMBDA parsed : route_decision(st, parsed))
    IN  log_node_execution("DECISION_ROUTER", st, new_state)

\* decision_router_fn without the default arm: the token is the target
decision_router_fn_verbatim(st) ==
    IF st.next_action \in tool_names THEN "structured_extractor"
    ELSE st.next_action

\* graph_builder.decision_router_fn
decision_router_fn(st) ==
    IF st.next_action \in tool_names THEN "structured_extractor"
    ELSE IF st.next_action = "end" THEN "end"
    ELSE "chat"

\* ------------------------------------------------------------ validation
\* the texts EMAIL_REGEX ^[^@\s]+@[^@\s]+\.[^@\s]+$ matches
EmailShaped == {<<"a@b.co">>}

\* the texts int() parses (surrounding whitespace allowed)
IntShaped == {<<"12">>}

\* the texts float() parses (surrounding whitespace allowed)
FloatShaped == {<<"12">>, <<"1.5">>}

\* the required check skipped: a blank value is passed over silently
check_field_ignore_required(data, field, acc) ==
    LET name == field.name
        val == DictGet(data, name)
    IN  IF name \notin DOMAIN data \/ Strip(val) = <<>> THEN acc
        ELSE [acc EXCEPT !.validated =
                [k \in DOMAIN @ \cup {name} |-> IF k = name THEN Strip(val) ELSE @[k]]]

\* a value that fails coercion or the format check reported and kept
check_field_keep_failed(data, field, acc) ==
    LET name == field.name
        val == DictGet(data, name)
        blank == name \notin DOMAIN data \/ Strip(val) = <<>>
        fails == \/ field.type = "int" /\ Strip(val) \notin IntShaped
                 \/ field.type = "float" /\ Strip(val) \notin FloatShaped
                 \/ field.format = "email" /\ Strip(val) \notin EmailShaped
    IN  IF blank
        THEN IF field.required
             THEN [acc EXCEPT !.errors = Append(@, <<name, WS, "is required">>)]
             ELSE acc
        ELSE [validated |-> [k \in DOMAIN acc.validated \cup {name} |->
                                IF k = name THEN Strip(val) ELSE acc.validated[k]],
              errors |-> IF fails
                         THEN Append(acc.errors, <<name, WS, "must be a valid", WS, field.type>>)
                         ELSE acc.errors]

\* validation.validate_against_schema lines 129-160: one pass of the loop,
\* acc holding validated and errors
check_field(data, field, acc) ==
    LET name == field.name
        present == name \in DOMAIN data
        val == DictGet(data, name)
        blank == ~present \/ Strip(val) = <<>>
        coerced == IF field.type \in {"string", "int", "float"} THEN Strip(val) ELSE val
        coerce_fails == \/ field.type = "int" /\ Strip(val) \notin IntShaped
                        \/ field.type = "float" /\ Strip(val) \notin FloatShaped
        format_fails == field.format = "email" /\ coerced \notin EmailShaped
    IN  IF blank
        THEN IF field.required
             THEN [acc EXCEPT !.errors = Append(@, <<name, WS, "is required">>)]
             ELSE acc
        ELSE IF coerce_fails
        THEN [acc EXCEPT !.errors =
                Append(@, <<name, WS, "failed to coerce to", WS, field.type>>)]
        ELSE IF format_fails
        THEN [acc EXCEPT !.errors = Append(@, <<name, WS, "must be a valid email">>)]
        ELSE [acc EXCEPT !.validated =
                [k \in DOMAIN @ \cup {name} |-> IF k = name THEN coerced ELSE @[k]]]

\* validation.validate_against_schema, fields i..Len(schema), accumulating
RECURSIVE ValidateFrom(_, _, _, _)
ValidateFrom(data, schema, i, acc) ==
    IF i > Len(schema) THEN acc
    ELSE ValidateFrom(data, schema, i + 1,
                      With(acc, LAMBDA a : check_field(data, schema[i], a)))

validate_against_schema(data, schema) ==
    With(schema, LAMBDA fields :
        ValidateFrom(data, fields, 1, [validated |-> EmptyDict, errors |-> <<>>]))

\* nodes.are_required_fields_complete (the definition in nodes.py shadows
\* the one imported from utilities)
are_required_fields_complete(data, fields) ==
    \A i \in DOMAIN fields :
        fields[i].required =>
            (fields[i].name \in DOMAIN data /\ Strip(data[fields[i].name]) # <<>>)

\* dict.update / the merge loops: keys of b selected by Take(k) written over a
MergeIf(a, b, Take(_)) ==
    [k \in DOMAIN a \cup {x \in DOMAIN b : Take(x)} |->
        IF k \in DOMAIN b /\ Take(k) THEN b[k] ELSE a[k]]

\* ------------------------------------------------------------ tool pipeline
\* the merge writing every extracted key
merge_extracted_overwrite(extracted_data, extracted) ==
    [k \in DOMAIN extracted_data \cup DOMAIN extracted |->
        IF k \in DOMAIN extracted THEN extracted[k] ELSE extracted_data[k]]

\* nodes.structured_extractor_node lines 440-444: extracted values fill the
\* keys that are absent or hold a falsy value
merge_extracted(extracted_data, extracted) ==
    LET Fill(k) == k \notin DOMAIN extracted_data \/ ~Truthy(extracted_data[k])
    IN  MergeIf(extracted_data, extracted, Fill)

\* nodes.structured_extractor_node; llm is what the JSON-mode call yields:
\* [ok |-> TRUE, obj |-> dict] when json.loads succeeds, ok = FALSE when the
\* call or the parse raises
structured_extractor_node(st, llm) ==
    LET sel == get_selected_tool_config(st)
        tool_type == IF sel.name # "" THEN sel.name ELSE "unknown"
        tool_category == get_tool_category(tool_type)
        schema == SchemaFor(st)
        extracted == IF llm.ok
                     THEN [k \in DOMAIN llm.obj |-> Strip(llm.obj[k])]
                     ELSE EmptyDict
        merged == merge_extracted(st.extracted_data, extracted)
        new_state ==
            IF schema # <<>> /\ are_required_fields_complete(st.extracted_data, schema)
            THEN [st EXCEPT !.next_action = "validate_inputs",
                            !.chosen_tool = tool_type,
                            !.tool_category = tool_category]
            ELSE IF extracted = EmptyDict /\ st.messages = <<>>
            THEN [st EXCEPT
                    !.messages = Append(@, Msg("assistant",
                        IF tool_category = "retrieval"
                        THEN <<"What would you like me to search for?">>
                        ELSE <<"Could you share the necessary details?">>)),
                    !.next_action = "chat"]
            ELSE [st EXCEPT !.extracted_data = merged,
                            !.next_action = "validate_inputs",
                            !.chosen_tool = tool_type,
                            !.tool_category = tool_category]
    IN  log_node_execution("STRUCTURED_EXTRACTOR", st, new_state)

\* structured_extractor_node calling the LLM before it looks at the fields
structured_extractor_llm_calls_eager(st) == <<"create_json_mode_llm">>

\* nodes.structured_extractor_node lines 371-438: the LLM clients the node
\* invokes, in order
structured_extractor_llm_calls(st) ==
    IF SchemaFor(st) # <<>> /\ are_required_fields_complete(st.extracted_data, SchemaFor(st))
    THEN <<>>
    ELSE <<"create_json_mode_llm">>

\* nodes.validate_inputs_node
validate_inputs_node(st) ==
    LET sel == get_selected_tool_config(st)
        tool_type == IF sel.name # "" THEN sel.name ELSE "unknown"
        All(k) == TRUE
        Returned(res) ==
            IF res.errors # <<>>
            THEN [st EXCEPT
                    !.messages = Append(@, Msg("assistant",
                        <<"I need a bit more information or corrections:", WS>>
                            \o Join("; ", res.errors))),
                    !.validation_errors = res.errors,
                    !.next_action = "chat"]
            ELSE [st EXCEPT
                    !.extracted_data = MergeIf(@, res.validated, All),
                    !.validation_errors = <<>>,
                    !.next_action = "tool_execution",
                    !.chosen_tool = tool_type]
        new_state == With(validate_against_schema(st.extracted_data, SchemaFor(st)),
                          Returned)
    IN  log_node_execution("VALIDATE_INPUTS", st, new_state)

\* validate_router ignoring the errors
validate_router_always_execute(st) == "tool_execution"

\* graph_builder.validate_router
validate_router(st) ==
    IF st.validation_errors # <<>> THEN "chat" ELSE "tool_execution"

\* what a registered tool function does with its backend
ToolOutcomes == {"success", "failure", "raise"}

\* execute_tool with the registry lookup outside its try: the KeyError
\* leaves the function and no envelope is returned
execute_tool_unguarded(tool_type, outcome) ==
    [raised |-> <<"'generic'">>]

\* tools.execute_tool: the default argument AVAILABLE_TOOLS["generic"] is
\* evaluated before the lookup, inside the try
execute_tool(tool_type, outcome) ==
    IF "generic" \notin AVAILABLE_TOOLS
    THEN [success |-> FALSE, type |-> tool_type,
          message |-> <<"Tool execution failed:", WS, "'generic'">>,
          error |-> <<"'generic'">>]
    ELSE IF outcome = "success"
    THEN [success |-> TRUE, type |-> tool_type,
          message |-> <<"done">>, summary |-> <<"done">>]
    ELSE IF outcome = "failure"
    THEN [success |-> FALSE, type |-> tool_type,
          message |-> <<"backend failed">>, error |-> <<"backend failed">>]
    ELSE [success |-> FALSE, type |-> tool_type,
          message |-> <<"Tool execution failed:", WS, "network error">>,
          error |-> <<"network error">>]

\* nodes.tool_execution_node lines 749-820: the implementation to run
resolve_tool_type(st) ==
    LET chosen == st.chosen_tool
        next_action == st.next_action
        t0 == IF chosen # "" THEN chosen
              ELSE IF next_action # "" /\ next_action # "tool_execution" THEN next_action
              ELSE "generic"
        sel == get_selected_tool_config(st)
        Usable(t) == t.type \in {"retrieval", "input"}
                     /\ (t.impl \in AVAILABLE_TOOLS \/ t.name \in AVAILABLE_TOOLS)
        u == FirstTool(Usable)
    IN  IF t0 \in AVAILABLE_TOOLS THEN t0
        ELSE IF sel.cfg # 0 /\ Tools[sel.cfg].impl \in AVAILABLE_TOOLS
        THEN Tools[sel.cfg].impl
        ELSE IF sel.name = "web_search" THEN "web_search"
        ELSE IF u # 0
        THEN (IF Tools[u].impl \in AVAILABLE_TOOLS THEN Tools[u].impl ELSE Tools[u].name)
        ELSE t0

\* nodes.tool_execution_node
tool_execution_node(st, outcome) ==
    LET tool_result == execute_tool(resolve_tool_type(st), outcome)
        new_state == [st EXCEPT !.tool_result = tool_result]
    IN  log_node_execution("TOOL_EXECUTION", st, new_state)

\* what an LLM call yields: a text, or an exception
LLMText(t) == [raised |-> FALSE, text |-> t]

LLMRaise == [raised |-> TRUE, text |-> <<>>]

\* nodes.tool_answer_node
tool_answer_node(st, llm) ==
    LET tool_result == st.tool_result
        tool_category == IF st.tool_category # "" THEN st.tool_category ELSE "input"
        last_tool_summary ==
            IF ResultSuccess(tool_result)
            THEN IF tool_category = "retrieval"
                 THEN <<"Search completed successfully:", WS>>
                        \o ResultMessage(tool_result, <<"Information found">>)
                 ELSE <<"Data saved successfully:", WS>>
                        \o ResultMessage(tool_result, <<"Operation completed">>)
            ELSE <<"Tool execution failed:", WS>> \o ResultError(tool_result)
        llm_answer == IF llm.raised THEN last_tool_summary ELSE Strip(llm.text)
        new_state == [st EXCEPT
            !.messages = Append(@, Msg("assistant", llm_answer)),
            !.user_input = <<>>,
            !.last_tool_summary = last_tool_summary,
            !.next_action = "wait_user_input"]
    IN  log_node_execution("TOOL_ANSWER", st, new_state)

\* ------------------------------------------------------------ other nodes
\* chat_node leaving the utterance in the state
chat_node_keep_input(st, agent_message) ==
    log_node_execution("CHAT_NODE", st,
        [st EXCEPT !.messages = Append(@, Msg("assistant", agent_message)),
                   !.conversation_active = TRUE])

\* nodes.chat_node
chat_node(st, agent_message) ==
    LET new_state == [st EXCEPT
            !.messages = Append(@, Msg("assistant", agent_message)),
            !.user_input = <<>>,
            !.conversation_active = TRUE]
    IN  log_node_execution("CHAT_NODE", st, new_state)

\* nodes.wait_user_input_node; resume is the value interrupt() returns when
\* the state carries no input
wait_user_input_node(st, resume) ==
    LET existing == st.user_input
        prefilled == existing # <<>> /\ Strip(existing) # <<>>
        user_input == IF prefilled THEN existing ELSE resume
        last == st.messages[Len(st.messages)]
        messages ==
            IF prefilled
            THEN IF st.messages = <<>> \/ last.role # "user" \/ last.content # user_input
                 THEN Append(st.messages, Msg("user", user_input))
                 ELSE st.messages
            ELSE IF user_input # <<>> /\ Strip(user_input) # <<>>
                 THEN Append(st.messages, Msg("user", user_input))
                 ELSE st.messages
        new_state == [st EXCEPT !.messages = messages, !.user_input = user_input]
    IN  log_node_execution("WAIT_USER_INPUT", st, new_state)

\* input_translation_node putting the failed call's empty text in user_input
input_translation_node_blank_on_failure(st, llm) ==
    log_node_execution("INPUT_TRANSLATION", st,
        IF llm.raised
        THEN [st EXCEPT !.user_input = <<>>,
                        !.error_message = <<"Translation failed:", WS, "error">>]
        ELSE [st EXCEPT !.user_input = Strip(llm.text)])

\* nodes.input_translation_node with translation enabled
input_translation_node(st, llm) ==
    LET new_state ==
            IF llm.raised
            THEN [st EXCEPT !.error_message = <<"Translation failed:", WS, "error">>]
            ELSE [st EXCEPT !.user_input = Strip(llm.text)]
    IN  log_node_execution("INPUT_TRANSLATION", st, new_state)

\* nodes.output_translation_node with translation enabled
output_translation_node(st, llm) ==
    LET n == Len(st.messages)
        new_state ==
            IF st.messages = <<>> THEN st
            ELSE IF st.messages[n].role # "assistant" THEN st
            ELSE IF llm.raised
            THEN [st EXCEPT !.error_message =
                    <<"Response translation failed:", WS, "error">>]
            ELSE [st EXCEPT !.messages[n].content = Strip(llm.text)]
    IN  log_node_execution("OUTPUT_TRANSLATION", st, new_state)

\* nodes.end_node
end_node(st) ==
    LET new_state == [st EXCEPT !.conversation_active = FALSE, !.next_action = "end"]
    IN  log_node_execution("END", st, new_state)

\* ------------------------------------------------------------ inputs
\* what the user types
UserInputs == {<<"hi">>}

\* what interrupt() can return on resume: a message, or a blank line
ResumeInputs == UserInputs \cup {<<WS>>}

Decide(tok) == <<"DECISION:", WS, tok, WS, "-", WS, "why">>

DecisionTokens == {"web_search", "Web_Search", "contact_form", "mailer",
                   "chat", "end", "END", "later"}

\* texts without a `DECISION: <token> - <reason>` line
PlainTexts == {<<WS, "not sure", WS>>, <<"DECISION:", WS, "chat">>}

\* what the decision LLM can return
DecisionTexts ==
    {Decide(t) : t \in DecisionTokens}
        \cup {<<"I think", WS, "Decision:", WS, "end", WS, "-", WS, "bye", WS>>}
        \cup PlainTexts

\* what the JSON-mode extraction call can yield
ExtractionResults ==
    {[ok |-> TRUE, obj |-> o] :
        o \in {EmptyDict,
               "query" :> <<"cats">>,
               "query" :> <<WS, "cats", WS>>,
               "query" :> <<>>,
               "email" :> <<"a@b.co">>,
               "email" :> <<"nomail">>}}
        \cup {[ok |-> FALSE, obj |-> EmptyDict]}

ChatReplies == {<<"sure">>}

AnswerResults == {LLMText(<<"here you go">>), LLMText(<<WS>>), LLMRaise}

InputTranslations == {LLMText(<<"hello">>), LLMRaise}

OutputTranslations == {LLMText(<<"tessek">>), LLMRaise}

\* ------------------------------------------------------------ the graph
Prefilled(st) == st.user_input # <<>> /\ Strip(st.user_input) # <<>>

\* the graph is parked in wait_user_input's interrupt()
Suspended == pc = "wait_user_input" /\ ~Prefilled(state)

\* ------------------------------------------------------ exit conditions
\* An expression is [kind |-> "str", text |-> tokens], [kind |-> "list",
\* items |-> texts], [kind |-> "dict", tool |-> .., status |-> ..],
\* [kind |-> "int", n |-> ..], [kind |-> "float"] or [kind |-> "none"].
\* An evaluation yields [raised |-> FALSE, value |-> b], or raised |-> TRUE.
Returns(b) == [raised |-> FALSE, value |-> b]

Raises == [raised |-> TRUE, value |-> FALSE]

\* `not expr`
FalsyExpr(expr) ==
    \/ expr.kind = "none"
    \/ expr.kind = "str" /\ expr.text = <<>>
    \/ expr.kind = "list" /\ expr.items = <<>>
    \/ expr.kind = "int" /\ expr.n = 0

\* str.lower() of a text
LowerText(t) == [i \in DOMAIN t |-> Lower(t[i])]

\* expr.split("|")
RECURSIVE SplitPipe(_, _)
SplitPipe(text, current) ==
    IF text = <<>> THEN <<current>>
    ELSE IF Head(text) = "|" THEN <<current>> \o SplitPipe(Tail(text), <<>>)
    ELSE SplitPipe(Tail(text), Append(current, Head(text)))

\* `phrase in message`, the phrase being empty or one token
PhraseIn(phrase, message) == phrase = <<>> \/ Contains(phrase[1], message)

\* utilities.prompt_matches
prompt_matches(expr, msgs) ==
    LET user_messages == SelectSeq(msgs, LAMBDA m : m.role = "user")
        last_user_message == LowerText(user_messages[Len(user_messages)].content)
        phrases == [i \in DOMAIN SplitPipe(expr.text, <<>>) |->
                        LowerText(Strip(SplitPipe(expr.text, <<>>)[i]))]
    IN  IF FalsyExpr(expr) \/ msgs = <<>> THEN Returns(FALSE)
        ELSE IF user_messages = <<>> THEN Returns(FALSE)
        ELSE IF expr.kind # "str" THEN Raises
        ELSE IF Head(expr.text) = "/" /\ expr.text[Len(expr.text)] = "/"
        THEN Returns(PhraseIn(LowerText(SubSeq(expr.text, 2, Len(expr.text) - 1)),
                              last_user_message))
        ELSE Returns(\E i \in DOMAIN phrases : PhraseIn(phrases[i], last_user_message))

\* utilities.logical_matches
logical_matches(expr, st) ==
    IF FalsyExpr(expr) THEN Returns(FALSE)
    ELSE IF expr.kind = "str" /\ expr.text = <<"is_data_complete">>
    THEN Returns(DOMAIN st.extracted_data # {})
    ELSE Returns(FALSE)

\* utilities.tool_event_matches
tool_event_matches(expr, st) ==
    IF FalsyExpr(expr) \/ expr.kind # "dict" THEN Returns(FALSE)
    ELSE IF st.tool_result = EmptyDict THEN Returns(FALSE)
    ELSE IF expr.tool # "" /\ DictGet(st.tool_result, "type") # expr.tool
    THEN Returns(FALSE)
    ELSE IF expr.status # "" /\ ResultSuccess(st.tool_result) # (expr.status = "success")
    THEN Returns(FALSE)
    ELSE Returns(TRUE)

\* the numerals int(expr) parses, outer whitespace allowed
Numerals == {<<"2">>, <<"12">>}

IntOf(text) == IF Strip(text) = <<"2">> THEN 2 ELSE 12

\* utilities.count_user_messages
count_user_messages(msgs) ==
    Cardinality({i \in DOMAIN msgs : msgs[i].role = "user"})

\* utilities.max_turns_matches
max_turns_matches(expr, msgs) ==
    IF expr.kind = "int" THEN Returns(Len(msgs) >= expr.n)
    ELSE IF expr.kind = "str" /\ Strip(expr.text) \in Numerals
    THEN Returns(Len(msgs) >= IntOf(expr.text))
    ELSE Returns(FALSE)

\* utilities.evaluate
evaluate(cond, st, messages) ==
    IF "type" \notin DOMAIN cond THEN Returns(FALSE)
    ELSE IF cond.type = "prompt" THEN prompt_matches(cond.expression, messages)
    ELSE IF cond.type = "logical" THEN logical_matches(cond.expression, st)
    ELSE IF cond.type = "tool_event" THEN tool_event_matches(cond.expression, st)
    ELSE IF cond.type = "max_turns" THEN max_turns_matches(cond.expression, messages)
    ELSE Returns(FALSE)

\* exit_evaluator_node with all(results) taken on an empty list as well
exit_evaluator_node_all_of_empty(st, conditions, mode) ==
    LET results == [i \in DOMAIN conditions |->
                        evaluate(conditions[i], st, st.messages).value]
        met == IF (IF mode = "" THEN "or" ELSE Lower(mode)) = "or"
               THEN \E i \in DOMAIN results : results[i]
               ELSE \A i \in DOMAIN results : results[i]
        new_state == IF met
                     THEN [st EXCEPT !.conversation_active = FALSE, !.next_action = "end"]
                     ELSE [st EXCEPT !.conversation_active = TRUE]
    IN  log_node_execution("EXIT_EVALUATOR", st, new_state)

\* nodes.exit_evaluator_node, when no evaluation raises
exit_evaluator_node(st, conditions, mode) ==
    LET results == [i \in DOMAIN conditions |->
                        evaluate(conditions[i], st, st.messages).value]
        met == IF (IF mode = "" THEN "or" ELSE Lower(mode)) = "or"
               THEN \E i \in DOMAIN results : results[i]
               ELSE IF results # <<>> THEN \A i \in DOMAIN results : results[i]
               ELSE FALSE
        new_state == IF met
                     THEN [st EXCEPT !.conversation_active = FALSE, !.next_action = "end"]
                     ELSE [st EXCEPT !.conversation_active = TRUE]
    IN  log_node_execution("EXIT_EVALUATOR", st, new_state)

\* graph_builder.exit_router
exit_router(st) ==
    IF st.next_action = "end" \/ st.conversation_active = FALSE
    THEN "end" ELSE "decision_router"

\* next_node with the answer nodes leading to exit_evaluator
next_node_through_exit_evaluator(node, st) ==
    CASE node = "wait_user_input" ->
            IF translation_enabled THEN "input_translation" ELSE "decision_router"
      [] node = "input_translation" -> "decision_router"
      [] node = "decision_router" -> decision_router_fn(st)
      [] node = "chat" -> "exit_evaluator"
      [] node = "structured_extractor" -> "validate_inputs"
      [] node = "validate_inputs" -> validate_router(st)
      [] node = "tool_execution" -> "tool_answer"
      [] node = "tool_answer" -> "exit_evaluator"
      [] node = "output_translation" -> "wait_user_input"
      [] node = "exit_evaluator" -> exit_router(st)
      [] node = "end" -> "__end__"

\* next_node with a failed tool routed to chat instead of tool_answer
next_node_failure_to_chat(node, st) ==
    CASE node = "wait_user_input" ->
            IF translation_enabled THEN "input_translation" ELSE "decision_router"
      [] node = "input_translation" -> "decision_router"
      [] node = "decision_router" -> decision_router_fn(st)
      [] node = "chat" ->
            IF translation_enabled THEN "output_translation" ELSE "wait_user_input"
      [] node = "structured_extractor" -> "validate_inputs"
      [] node = "validate_inputs" -> validate_router(st)
      [] node = "tool_execution" ->
            IF ResultSuccess(st.tool_result) THEN "tool_answer" ELSE "chat"
      [] node = "tool_answer" ->
            IF translation_enabled THEN "output_translation" ELSE "wait_user_input"
      [] node = "output_translation" -> "wait_user_input"
      [] node = "end" -> "__end__"

\* graph_builder.create_conversation_graph: the edges of the compiled graph,
\* st being the state the node returned
next_node(node, st) ==
    CASE node = "wait_user_input" ->
            IF translation_enabled THEN "input_translation" ELSE "decision_router"
      [] node = "input_translation" -> "decision_router"
      [] node = "decision_router" -> decision_router_fn(st)
      [] node = "chat" ->
            IF translation_enabled THEN "output_translation" ELSE "wait_user_input"
      [] node = "structured_extractor" -> "validate_inputs"
      [] node = "validate_inputs" -> validate_router(st)
      [] node = "tool_execution" -> "tool_answer"
      [] node = "tool_answer" ->
            IF translation_enabled THEN "output_translation" ELSE "wait_user_input"
      [] node = "output_translation" -> "wait_user_input"
      [] node = "exit_evaluator" -> exit_router(st)
      [] node = "end" -> "__end__"

\* the tool a decision text names, case-insensitively: "" if none
RawTool(response) ==
    LET match == ReSearch(response)
        Matches(t) == match.matched /\ Lower(t.name) = Lower(match.group1)
        i == FirstTool(Matches)
    IN  IF i # 0 THEN Tools[i].name ELSE ""

\* consecutive turns, up to now, in which the router chose the same tool
NextStreak(s, st) ==
    IF st.next_action \in tool_names
    THEN [tool |-> st.next_action,
          n |-> IF s.tool = st.next_action THEN s.n + 1 ELSE 1]
    ELSE [tool |-> "", n |-> 0]

\* the pregel loop runs the node at pc and follows its edge
Run(new_state) ==
    /\ state' = new_state
    /\ pc' = next_node(pc, state')
    /\ trace' = Append(trace, pc)

Init ==
    /\ state = InitialState
    /\ pc = "wait_user_input"
    /\ translation_enabled \in BOOLEAN
    /\ llm_response = <<>>
    /\ turns = 0
    /\ trace = <<>>
    /\ streak = [tool |-> "", n |-> 0]
    /\ call = <<>>

\* interactive_test.chat_with_agent: the host writes the input into the
\* state and invokes the graph from its entry point
HostSendUpTo(max_turns) ==
    /\ Suspended
    /\ turns < max_turns
    /\ \E u \in UserInputs :
         state' = [state EXCEPT !.user_input = u,
                                !.messages = Append(@, Msg("user", u))]
    /\ turns' = turns + 1
    /\ trace' = <<>>
    /\ llm_response' = <<>>
    /\ UNCHANGED <<call, pc, translation_enabled, streak>>

\* a host that invokes the graph again on the state of a session that has
\* ended: the run starts at the entry point, as every invocation does
HostReinvokeUpTo(max_turns) ==
    /\ pc = "__end__"
    /\ turns < max_turns
    /\ \E u \in UserInputs :
         state' = [state EXCEPT !.user_input = u,
                                !.messages = Append(@, Msg("user", u))]
    /\ pc' = "wait_user_input"
    /\ turns' = turns + 1
    /\ trace' = <<>>
    /\ llm_response' = <<>>
    /\ UNCHANGED <<call, translation_enabled, streak>>

WaitUserInputUpTo(max_turns, resumes) ==
    /\ pc = "wait_user_input"
    /\ Prefilled(state) \/ turns < max_turns
    /\ \E resume \in (IF Prefilled(state) THEN {<<>>} ELSE resumes) :
         /\ state' = wait_user_input_node(state, resume)
         /\ pc' = next_node(pc, state')
    /\ turns' = IF Prefilled(state) THEN turns ELSE turns + 1
    /\ trace' = <<"wait_user_input">>
    /\ llm_response' = <<>>
    /\ UNCHANGED <<call, translation_enabled, streak>>

DecisionRouterOn(texts) ==
    /\ pc = "decision_router"
    /\ \E r \in texts :
         /\ llm_response' = r
         /\ Run(decision_router_node(state, r))
    /\ streak' = NextStreak(streak, state')
    /\ UNCHANGED <<call, translation_enabled, turns>>

StructuredExtractorOn(results) ==
    /\ pc = "structured_extractor"
    /\ \E llm \in results : Run(structured_extractor_node(state, llm))
    /\ UNCHANGED <<call, translation_enabled, llm_response, turns, streak>>

ToolAnswerOn(results) ==
    /\ pc = "tool_answer"
    /\ \E llm \in results : Run(tool_answer_node(state, llm))
    /\ UNCHANGED <<call, translation_enabled, llm_response, turns, streak>>

HostSend == HostSendUpTo(MaxTurns)

HostReinvoke == HostReinvokeUpTo(MaxTurns)

WaitUserInput == WaitUserInputUpTo(MaxTurns, ResumeInputs)

InputTranslation ==
    /\ pc = "input_translation"
    /\ \E llm \in InputTranslations : Run(input_translation_node(state, llm))
    /\ UNCHANGED <<call, translation_enabled, llm_response, turns, streak>>

DecisionRouter == DecisionRouterOn(DecisionTexts)

Chat ==
    /\ pc = "chat"
    /\ \E m \in ChatReplies : Run(chat_node(state, m))
    /\ UNCHANGED <<call, translation_enabled, llm_response, turns, streak>>

\* chat_node and decision_router_node call llm.invoke outside any try: when
\* the call raises, the exception leaves the node and ends the invocation;
\* no state is returned
LLMCallRaises(node) ==
    /\ pc = node
    /\ pc' = "__raised__"
    /\ trace' = Append(trace, "__raised__")
    /\ UNCHANGED <<call, state, translation_enabled, llm_response, turns, streak>>

ChatRaises == LLMCallRaises("chat")

DecisionRouterRaises == LLMCallRaises("decision_router")

StructuredExtractor == StructuredExtractorOn(ExtractionResults)

ValidateInputs ==
    /\ pc = "validate_inputs"
    /\ Run(validate_inputs_node(state))
    /\ UNCHANGED <<call, translation_enabled, llm_response, turns, streak>>

ToolExecution ==
    /\ pc = "tool_execution"
    /\ \E o \in ToolOutcomes : Run(tool_execution_node(state, o))
    /\ UNCHANGED <<call, translation_enabled, llm_response, turns, streak>>

ToolAnswer == ToolAnswerOn(AnswerResults)

OutputTranslation ==
    /\ pc = "output_translation"
    /\ \E llm \in OutputTranslations : Run(output_translation_node(state, llm))
    /\ UNCHANGED <<call, translation_enabled, llm_response, turns, streak>>

End ==
    /\ pc = "end"
    /\ Run(end_node(state))
    /\ UNCHANGED <<call, translation_enabled, llm_response, turns, streak>>

Next ==
    \/ HostSend
    \/ HostReinvoke
    \/ WaitUserInput
    \/ InputTranslation
    \/ DecisionRouter
    \/ DecisionRouterRaises
    \/ Chat
    \/ ChatRaises
    \/ StructuredExtractor
    \/ ValidateInputs
    \/ ToolExecution
    \/ ToolAnswer
    \/ OutputTranslation
    \/ End

Spec == Init /\ [][Next]_vars

\* ------------------------------------------- turns that run to their end
\* the same graph, the LLM calls answering from smaller sets: a tool, chat,
\* end, an unknown token or no decision at all; a usable, an invalid or no
\* extraction; an answer or an exception
FairTexts == {Decide("web_search"), Decide("contact_form"), Decide("chat"),
              Decide("end"), Decide("later"), <<WS, "not sure", WS>>}

FairExtractions == {[ok |-> TRUE, obj |-> "query" :> <<"cats">>],
                    [ok |-> TRUE, obj |-> "email" :> <<"nomail">>],
                    [ok |-> FALSE, obj |-> EmptyDict]}

FairAnswers == {LLMText(<<"here you go">>), LLMRaise}

FairDecisionRouter == DecisionRouterOn(FairTexts)

FairStructuredExtractor == StructuredExtractorOn(FairExtractions)

FairToolAnswer == ToolAnswerOn(FairAnswers)

\* the steps the graph runtime takes on its own, without the user
FairGraphStep ==
    \/ (Prefilled(state) /\ WaitUserInput)
    \/ InputTranslation \/ FairDecisionRouter \/ Chat \/ FairStructuredExtractor
    \/ ValidateInputs \/ ToolExecution \/ FairToolAnswer \/ OutputTranslation \/ End

FairNext ==
    \/ HostSend
    \/ WaitUserInput
    \/ InputTranslation
    \/ FairDecisionRouter
    \/ Chat
    \/ FairStructuredExtractor
    \/ ValidateInputs
    \/ ToolExecution
    \/ FairToolAnswer
    \/ OutputTranslation
    \/ End

\* the runtime runs a started turn to its next suspension
FairSpec == Init /\ [][FairNext]_vars /\ WF_vars(FairGraphStep)

\* ---------------------------------------- a long conversation, few inputs
\* the same graph without translation, driven for LoopTurns turns with the
\* decision LLM answering web_search, chat or end
LoopTexts == {Decide("web_search"), Decide("chat"), Decide("end")}

LoopExtractions == {[ok |-> TRUE, obj |-> "query" :> <<"cats">>],
                    [ok |-> FALSE, obj |-> EmptyDict]}

LoopAnswers == {LLMText(<<"here you go">>)}

LoopInit == Init /\ translation_enabled = FALSE

LoopHostSend == HostSendUpTo(LoopTurns)

LoopWaitUserInput == WaitUserInputUpTo(LoopTurns, UserInputs)

LoopDecisionRouter == DecisionRouterOn(LoopTexts)

LoopStructuredExtractor == StructuredExtractorOn(LoopExtractions)

LoopToolAnswer == ToolAnswerOn(LoopAnswers)

LoopNext ==
    \/ LoopHostSend
    \/ LoopWaitUserInput
    \/ LoopDecisionRouter
    \/ Chat
    \/ LoopStructuredExtractor
    \/ ValidateInputs
    \/ ToolExecution
    \/ LoopToolAnswer
    \/ End

LoopSpec == LoopInit /\ [][LoopNext]_vars

\* ---------------------------------------- decision_router_node on its own
\* decision_router_node called on a state with any action history of at
\* most HistoryLimit records and any tool left by an earlier turn
RecordKinds ==
    {[node |-> "DECISION_ROUTER", outcome |-> <<"decided", WS, "web_search">>],
     [node |-> "DECISION_ROUTER", outcome |-> <<"decided", WS, "contact_form">>],
     [node |-> "DECISION_ROUTER", outcome |-> <<"Node", WS, "DECISION_ROUTER", WS, "completed">>],
     [node |-> "CHAT_NODE", outcome |-> <<"Generated response:", WS, "sure">>]}

Histories ==
    UNION {{[i \in 1..n |-> [step      |-> i,
                             node      |-> f[i].node,
                             outcome   |-> f[i].outcome,
                             timestamp |-> 1]] : f \in [1..n -> RecordKinds]}
            : n \in 0..HistoryLimit}

PriorTools == {[tool |-> "", category |-> ""],
               [tool |-> "web_search", category |-> "retrieval"]}

RouterTexts == {Decide("web_search"), Decide("Web_Search"), Decide("contact_form"),
                Decide("chat"), <<WS, "not sure", WS>>}

RouterInit ==
    /\ state \in {[InitialState EXCEPT !.action_history = h,
                                       !.chosen_tool = p.tool,
                                       !.tool_category = p.category,
                                       !.user_input = <<"hi">>,
                                       !.messages = <<Msg("user", <<"hi">>)>>]
                    : h \in Histories, p \in PriorTools}
    /\ llm_response \in RouterTexts
    /\ pc = "router_call"
    /\ translation_enabled = FALSE
    /\ turns = 0
    /\ trace = <<>>
    /\ streak = [tool |-> "", n |-> 0]
    /\ call = <<>>

RouterCall ==
    /\ pc = "router_call"
    /\ state' = decision_router_node(state, llm_response)
    /\ pc' = "router_done"
    /\ UNCHANGED <<call, translation_enabled, llm_response, turns, trace, streak>>

RouterSpec == RouterInit /\ [][RouterCall]_vars

\* ------------------------------------------------------------ properties
Last(s) == s[Len(s)]

InTrace(node) == \E i \in DOMAIN trace : trace[i] = node

\* the node that ran last in the current turn
JustRan(node) == trace # <<>> /\ Last(trace) = node

\* ------------------------------------ validate_against_schema on its own
\* validate_against_schema called on normalize_input_schema(input_schema)
\* for any schema of at most MaxFields fields with distinct names, written
\* as a flat field list or as a JSON-Schema-like object, or absent, and any
\* data over the same names
FieldShapes == {[name |-> "email", type |-> "string", format |-> "email"],
                [name |-> "age",   type |-> "int",    format |-> "none"],
                [name |-> "price", type |-> "float",  format |-> "none"]}

FieldNames == {f.name : f \in FieldShapes}

DistinctNames(fields) ==
    \A i, j \in DOMAIN fields : fields[i].name = fields[j].name => i = j

FieldLists ==
    LET Choices == {[name |-> f.name, type |-> f.type,
                     required |-> r, format |-> f.format]
                        : f \in FieldShapes, r \in BOOLEAN}
    IN  UNION {{fields \in [1..n -> Choices] : DistinctNames(fields)}
                : n \in 0..MaxFields}

PropertyLists ==
    LET Choices == {[name |-> f.name, spec |-> [type |-> f.type, format |-> f.format]]
                        : f \in FieldShapes}
    IN  UNION {{props \in [1..n -> Choices] : DistinctNames(props)}
                : n \in 0..MaxFields}

RawSchemas ==
    {[kind |-> "list", fields |-> fields] : fields \in FieldLists}
        \cup {[kind |-> "object", properties |-> props, required |-> req]
                : props \in PropertyLists, req \in SUBSET FieldNames}
        \cup {[kind |-> "none"]}

DataRecords ==
    LET Values(k) ==
            CASE k = "email" -> {<<>>, <<"a@b.co">>, <<WS, "a@b.co", WS>>, <<"nomail">>}
              [] k = "age"   -> {<<WS>>, <<"12">>, <<"old">>}
              [] k = "price" -> {<<"1.5">>, <<"old">>}
    IN  UNION {{d \in [K -> UNION {Values(k) : k \in K}] :
                    \A k \in K : d[k] \in Values(k)}
                : K \in SUBSET FieldNames}

SchemaInit ==
    /\ call \in {[data |-> d, input_schema |-> raw] : d \in DataRecords, raw \in RawSchemas}
    /\ pc = "validate_call"
    /\ state = InitialState
    /\ translation_enabled = FALSE
    /\ llm_response = <<>>
    /\ turns = 0
    /\ trace = <<>>
    /\ streak = [tool |-> "", n |-> 0]

SchemaCall ==
    /\ pc = "validate_call"
    /\ call' = [data |-> call.data,
                input_schema |-> call.input_schema,
                schema |-> normalize_input_schema(call.input_schema),
                result |-> validate_against_schema(
                                call.data, normalize_input_schema(call.input_schema))]
    /\ pc' = "validate_done"
    /\ UNCHANGED <<state, translation_enabled, llm_response, turns, trace, streak>>

SchemaSpec == SchemaInit /\ [][SchemaCall]_vars

\* the fields a raw schema declares, read off the schema as written
DeclaredFields(input_schema) ==
    IF input_schema.kind = "list"
    THEN {input_schema.fields[i] : i \in DOMAIN input_schema.fields}
    ELSE IF input_schema.kind = "object"
    THEN {[name     |-> p.name,
           type     |-> p.spec.type,
           required |-> p.name \in input_schema.required,
           format   |-> p.spec.format]
            : p \in {input_schema.properties[i] : i \in DOMAIN input_schema.properties}}
    ELSE {}

\* val is None or a blank str
Blank(data, name) == name \notin DOMAIN data \/ Strip(data[name]) = <<>>

\* the value parses as the field's type and has the field's format
WellFormed(field, val) ==
    /\ field.type = "int" => Strip(val) \in IntShaped
    /\ field.type = "float" => Strip(val) \in FloatShaped
    /\ field.format = "email" => Strip(val) \in EmailShaped

\* a record that is valid for a schema: required fields are there, and
\* what is there is well formed
ValidFor(data, input_schema) ==
    \A f \in DeclaredFields(input_schema) :
        IF Blank(data, f.name) THEN ~f.required ELSE WellFormed(f, data[f.name])

ErrorsOf(result) == {result.errors[i] : i \in DOMAIN result.errors}

\* a step in which a node ran and returned a state (the host's steps start
\* a trace)
NodeRan == trace' # <<>> /\ trace' # trace /\ pc' # "__raised__"

\* the turn has left wait_user_input and has not come back
InTurn == pc \notin {"wait_user_input", "__end__"}

\* the token of the DECISION line of a text, "" if it has none
RawToken(response) == ReSearch(response).group1

AllToolNames == {Tools[i].name : i \in DOMAIN Tools}

ToolType(name) == (CHOOSE i \in DOMAIN Tools : Tools[i].name = name)

\* C1: a turn that has started reaches the wait_user_input suspension or
\* the end of the graph after finitely many node executions, whatever the
\* router decides and with translation on or off (FairSpec: the runtime
\* keeps running the nodes of a started turn).
C1_TurnReachesSuspensionOrEnd ==
    InTurn ~> (Suspended \/ pc = "__end__")

\* C1 witness: a turn went through the tool pipeline and output translation
\* and the graph is parked in wait_user_input again.
C1_Witness ==
    /\ Suspended
    /\ translation_enabled
    /\ InTrace("decision_router") /\ InTrace("tool_answer")
    /\ JustRan("output_translation")

\* C2 (as claimed): leaving decision_router the graph goes to
\* structured_extractor whenever the decision token matches the name of a
\* tool of the configuration whatever its case, with chosen_tool and
\* tool_category set to that tool.
C2_AnyConfiguredToolRoutes ==
    [][(pc = "decision_router" /\ NodeRan) =>
        LET tool == RawTool(llm_response')
        IN  tool \in AllToolNames =>
                /\ pc' = "structured_extractor"
                /\ state'.chosen_tool = tool
                /\ state'.tool_category = Tools[ToolType(tool)].type]_vars

\* C2 (amended): leaving decision_router the graph goes to
\* structured_extractor when the decision token matches, whatever its case,
\* the name of an enabled tool of the configuration; to end when the token
\* is "end"; and to chat for "chat", the name of a disabled tool, any other
\* token and a text without a decision. chosen_tool and tool_category are
\* set to the matched tool, enabled or not.
C2_RouterEdges ==
    [][(pc = "decision_router" /\ NodeRan) =>
        LET tool == RawTool(llm_response')
            token == RawToken(llm_response')
        IN  /\ tool \in AllToolNames =>
                /\ state'.chosen_tool = tool
                /\ state'.tool_category = Tools[ToolType(tool)].type
            /\ tool \in tool_names => pc' = "structured_extractor"
            /\ token = "end" => pc' = "end"
            /\ (tool \notin tool_names /\ token # "end") => pc' = "chat"]_vars

\* C2 witness: the decision "Web_Search" sent the graph to
\* structured_extractor with web_search chosen.
C2_Witness ==
    /\ JustRan("decision_router")
    /\ RawToken(llm_response) = "Web_Search"
    /\ pc = "structured_extractor"
    /\ state.chosen_tool = "web_search"
    /\ state.tool_category = "retrieval"

\* C3: tool_execution is entered only straight from a validate_inputs run
\* that found no error in extracted_data; a validate_inputs run that
\* reported an error is followed by chat (whose LLM call may raise), and
\* the turn runs no tool.
C3_ToolOnlyAfterCleanValidation ==
    /\ pc = "tool_execution" =>
        /\ JustRan("validate_inputs")
        /\ state.validation_errors = <<>>
        /\ validate_against_schema(state.extracted_data, SchemaFor(state)).errors = <<>>
    /\ (InTrace("validate_inputs") /\ state.validation_errors # <<>>) =>
        /\ ~InTrace("tool_execution")
        /\ pc # "tool_execution"
        /\ \A i \in DOMAIN trace :
             trace[i] = "validate_inputs" =>
                IF i = Len(trace) THEN pc = "chat"
                ELSE trace[i + 1] \in {"chat", "__raised__"}

\* C3 witness: an empty extraction failed the required-field check and the
\* graph stands at chat.
C3_Witness ==
    /\ JustRan("validate_inputs")
    /\ state.extracted_data = EmptyDict
    /\ state.validation_errors = <<<<"email", WS, "is required">>>>
    /\ pc = "chat"

\* C4: tool_execution is always followed at once by tool_answer; tool_answer
\* sets next_action to "wait_user_input" and hands over to wait_user_input,
\* through output_translation when translation is enabled.
C4_ToolExecutionThenAnswer ==
    [][/\ pc = "tool_execution" => pc' = "tool_answer"
       /\ pc = "tool_answer" =>
            /\ state'.next_action = "wait_user_input"
            /\ pc' = IF translation_enabled THEN "output_translation"
                     ELSE "wait_user_input"
       /\ (pc = "output_translation" /\ InTrace("tool_answer")) =>
            pc' = "wait_user_input"]_vars

\* C4 witness: a failed tool was answered and the graph is back in
\* wait_user_input with next_action "wait_user_input".
C4_Witness ==
    /\ pc = "wait_user_input"
    /\ InTrace("tool_execution") /\ InTrace("tool_answer")
    /\ ~ResultSuccess(state.tool_result)
    /\ state.next_action = "wait_user_input"

\* C5 (as claimed): after tool_answer ran on a failed tool result, the last
\* message is an assistant message with non-empty content, whatever the
\* answer LLM returned.
C5_FailedToolAnswerNonEmpty ==
    (JustRan("tool_answer") /\ ~ResultSuccess(state.tool_result)) =>
        /\ state.messages # <<>>
        /\ Last(state.messages).role = "assistant"
        /\ Last(state.messages).content # <<>>

\* C6 (as claimed): when the last two DECISION_ROUTER records of the
\* history both name the tool of the raw decision, wherever they sit among
\* other records and whatever an older record names, the node returns
\* next_action "chat".
C6_LastTwoDecisionsOverride ==
    [][pc = "router_call" =>
        LET tool == RawTool(llm_response)
            decisions == SelectSeq(state.action_history,
                                   LAMBDA a : a.node = "DECISION_ROUTER")
            n == Len(decisions)
        IN  (tool # "" /\ n >= 2
             /\ Contains(tool, decisions[n].outcome)
             /\ Contains(tool, decisions[n - 1].outcome))
                => state'.next_action = "chat"]_vars

\* C7 (as claimed): after three turns running in which the router chose the
\* same tool, a fourth raw decision for that tool comes out as "chat".
C7_FourthDecisionOverridden ==
    [][(pc = "decision_router" /\ streak.n >= 3
        /\ RawTool(llm_response') = streak.tool)
            => state'.next_action = "chat"]_vars

\* C8 (as claimed): when the loop guard overrides the decision, the
\* returned state has chosen_tool and tool_category cleared, whatever an
\* earlier turn left there.
C8_OverrideClearsTool ==
    [][(pc = "router_call"
        /\ repeated_tool(RawTool(llm_response), state.action_history))
            => (state'.chosen_tool = "" /\ state'.tool_category = "")]_vars

\* C9 (as claimed): after decision_router_node, next_action is the name of
\* a configured tool, "chat" or "end".
C9_NextActionClosedSet ==
    JustRan("decision_router") =>
        state.next_action \in AllToolNames \cup {"chat", "end"}

\* C9 (amended): after decision_router_node, next_action is set, and it is
\* the name of a configured tool, "chat", or the token of the DECISION line
\* exactly as the LLM wrote it.
C9_NextActionSet ==
    JustRan("decision_router") =>
        /\ state.next_action # ""
        /\ \/ state.next_action \in AllToolNames
           \/ state.next_action = "chat"
           \/ /\ ReSearch(llm_response).matched
              /\ state.next_action = RawToken(llm_response)

\* C9 witness: the router left the unrecognized token "later" in
\* next_action and the graph stands at chat.
C9_Witness ==
    /\ JustRan("decision_router")
    /\ state.next_action = "later"
    /\ pc = "chat"

\* C10 (as claimed): a text without a DECISION line gives next_action
\* "chat", the raw text as justification, and the turn goes on to chat.
C10_FallbackKeepsRawText ==
    (JustRan("decision_router") /\ ~ReSearch(llm_response).matched) =>
        /\ state.next_action = "chat"
        /\ state.decision_justification = llm_response
        /\ pc = "chat"

\* C10 (amended): a text without a DECISION line gives next_action "chat",
\* the text without its leading and trailing whitespace as justification,
\* and the turn goes on to chat.
C10_FallbackKeepsStrippedText ==
    (JustRan("decision_router") /\ ~ReSearch(llm_response).matched) =>
        /\ state.next_action = "chat"
        /\ state.decision_justification = Strip(llm_response)
        /\ state.decision_justification # <<>>
        /\ pc = "chat"

\* C10 witness: the text " not sure " was routed to chat with "not sure"
\* as justification.
C10_Witness ==
    /\ JustRan("decision_router")
    /\ llm_response = <<WS, "not sure", WS>>
    /\ state.decision_justification = <<"not sure">>
    /\ state.next_action = "chat"
    /\ pc = "chat"

\* ---------------------------------- structured_extractor_node on its own
\* structured_extractor_node called on a state holding any extracted_data
\* over the keys query and email, with any JSON object the LLM can return
FieldValues == {<<>>, <<"cats">>, <<WS, "dogs", WS>>}

FieldDicts == UNION {[K -> FieldValues] : K \in SUBSET {"query", "email"}}

ExtractorInit ==
    /\ state \in {[InitialState EXCEPT !.extracted_data = d,
                                       !.chosen_tool = t,
                                       !.next_action = t,
                                       !.user_input = m,
                                       !.messages = IF m = <<>> THEN <<>>
                                                    ELSE <<Msg("user", m)>>]
                    : d \in FieldDicts, t \in tool_names, m \in {<<>>, <<"hi">>}}
    /\ llm_response \in {[ok |-> TRUE, obj |-> o] : o \in FieldDicts}
                            \cup {[ok |-> FALSE, obj |-> EmptyDict]}
    /\ pc = "extractor_call"
    /\ translation_enabled = FALSE
    /\ turns = 0
    /\ trace = <<>>
    /\ streak = [tool |-> "", n |-> 0]
    /\ call = <<>>

ExtractorCall ==
    /\ pc = "extractor_call"
    /\ state' = structured_extractor_node(state, llm_response)
    /\ call' = structured_extractor_llm_calls(state)
    /\ pc' = "extractor_done"
    /\ UNCHANGED <<translation_enabled, llm_response, turns, trace, streak>>

ExtractorSpec == ExtractorInit /\ [][ExtractorCall]_vars

\* C11 (as claimed): once conversation_active is false and next_action is
\* "end", no step of a further invocation on that state, whatever the user
\* says, changes next_action to another value.
C11_EndedKeepsNextActionEnd ==
    [][(~state.conversation_active /\ state.next_action = "end")
            => state'.next_action = "end"]_vars

\* C12 (as claimed): once conversation_active is false, no later node
\* execution sets it back to true.
C12_ConversationActiveTerminal ==
    [][~state.conversation_active => ~state'.conversation_active]_vars

\* C13: action_history never holds more than 5 records, and every node
\* execution returns the previous history with one record appended at the
\* end, the oldest record being dropped exactly when the history already
\* held 5.
C13_HistoryBoundedAppendOnly ==
    [][NodeRan =>
        LET old == state.action_history
            new == state'.action_history
        IN  /\ Len(old) <= 5 /\ Len(new) <= 5
            /\ new # <<>>
            /\ IF Len(old) < 5
               THEN Len(new) = Len(old) + 1 /\ SubSeq(new, 1, Len(old)) = old
               ELSE Len(new) = 5 /\ SubSeq(new, 1, 4) = SubSeq(old, 2, 5)
            /\ Last(new).step = Len(old) + 1]_vars

\* C13 witness: the sixth node of a turn has run, the record of
\* wait_user_input has been dropped from the front and five records remain.
C13_Witness ==
    /\ Len(trace) >= 6
    /\ Len(state.action_history) = 5
    /\ state.action_history[1].node # "WAIT_USER_INPUT"
    /\ state.action_history[5].step = 6

\* C14: a structured_extractor execution keeps every key of extracted_data
\* that holds a non-empty value, whatever the LLM extracts for it, and
\* changes only keys that were absent or held a falsy value.
C14_ExtractionKeepsValues ==
    [][pc = "extractor_call" =>
        LET old == state.extracted_data
            new == state'.extracted_data
        IN  /\ \A k \in DOMAIN old :
                Truthy(old[k]) => (k \in DOMAIN new /\ new[k] = old[k])
            /\ \A k \in DOMAIN new :
                (k \notin DOMAIN old \/ new[k] # old[k])
                    => (k \notin DOMAIN old \/ ~Truthy(old[k]))
            /\ DOMAIN old \subseteq DOMAIN new]_vars

\* C14 witness: the LLM extracted " dogs " for query and for email; query
\* kept the value "cats" it held, email was filled.
C14_Witness ==
    /\ pc = "extractor_done"
    /\ llm_response.ok
    /\ DOMAIN llm_response.obj = {"query", "email"}
    /\ llm_response.obj["query"] = <<WS, "dogs", WS>>
    /\ DOMAIN state.extracted_data = {"query", "email"}
    /\ state.extracted_data["query"] = <<"cats">>
    /\ state.extracted_data["email"] = <<"dogs">>

\* C15 (as claimed): after the execution of any node, messages has the
\* list from before the node as a prefix, with translation enabled as well
\* as disabled.
C15_MessagesAppendOnly ==
    [][NodeRan =>
        /\ Len(state'.messages) >= Len(state.messages)
        /\ SubSeq(state'.messages, 1, Len(state.messages)) = state.messages]_vars

\* C16: whenever a turn has run nodes and the graph is back at
\* wait_user_input, user_input is empty, so wait_user_input suspends for
\* new input; and the decision router ran at most once in the turn.
C16_InputConsumedOnce ==
    /\ (pc = "wait_user_input" /\ trace # <<>>) =>
            (state.user_input = <<>> /\ Suspended)
    /\ Cardinality({i \in DOMAIN trace : trace[i] = "decision_router"}) <= 1

\* C16 witness: a turn went through a failed validation and chat and the
\* graph is suspended with user_input empty.
C16_Witness ==
    /\ Suspended
    /\ InTrace("validate_inputs") /\ JustRan("chat")
    /\ state.validation_errors # <<>>
    /\ state.user_input = <<>>

\* C17 (as claimed): no node lets an exception of its LLM call escape: the
\* invocation never ends in a raised exception.
C17_NoExceptionEscapes ==
    pc # "__raised__"

\* C18: validate_against_schema returns a pair for every schema and record,
\* and for every schema field the error "<name> is required" is reported
\* exactly when the field is required and its value is missing or blank; a
\* missing or blank field, required or not, is absent from validated.
C18_RequiredReportedExactly ==
    pc = "validate_done" =>
        /\ DOMAIN call.result = {"validated", "errors"}
        /\ \A f \in DeclaredFields(call.input_schema) :
            /\ (<<f.name, WS, "is required">> \in ErrorsOf(call.result))
                    <=> (f.required /\ Blank(call.data, f.name))
            /\ Blank(call.data, f.name) => f.name \notin DOMAIN call.result.validated

\* C18 witness: email is required and blank, age is optional and absent:
\* one error, for email, and neither field in validated.
C18_Witness ==
    /\ pc = "validate_done"
    /\ call.input_schema.kind = "object"
    /\ call.input_schema.required = {"email"}
    /\ {f.name : f \in DeclaredFields(call.input_schema)} = {"email", "age"}
    /\ DOMAIN call.data = {"email"} /\ call.data["email"] = <<>>
    /\ call.result.errors = <<<<"email", WS, "is required">>>>
    /\ call.result.validated = EmptyDict

\* C19: a field whose value fails type coercion or the email format check
\* produces an error and is left out of validated; no field is both in
\* validated and the subject of an error.
C19_FailedFieldsDropped ==
    pc = "validate_done" =>
        /\ \A f \in DeclaredFields(call.input_schema) :
            (~Blank(call.data, f.name) /\ ~WellFormed(f, call.data[f.name])) =>
                /\ f.name \notin DOMAIN call.result.validated
                /\ \E e \in ErrorsOf(call.result) : e[1] = f.name
        /\ \A e \in ErrorsOf(call.result) : e[1] \notin DOMAIN call.result.validated

\* C19 witness: age "old" failed int coercion and email "nomail" failed the
\* format check; both are reported and validated is empty.
C19_Witness ==
    /\ pc = "validate_done"
    /\ DOMAIN call.data = {"email", "age"}
    /\ call.data["age"] = <<"old">> /\ call.data["email"] = <<"nomail">>
    /\ call.result.errors = <<<<"age", WS, "failed to coerce to", WS, "int">>,
                              <<"email", WS, "must be a valid email">>>>
    /\ call.result.validated = EmptyDict

\* C20 (as claimed): for a record valid for the raw schema, validation
\* against the normalized schema returns no error and a validated map whose
\* keys are exactly the provided keys that exist in the schema.
C20_RoundTripAllProvidedKeys ==
    (pc = "validate_done" /\ ValidFor(call.data, call.input_schema)) =>
        /\ call.result.errors = <<>>
        /\ DOMAIN call.result.validated =
                DOMAIN call.data \cap {f.name : f \in DeclaredFields(call.input_schema)}

\* C20 (amended): for a record valid for the raw schema, validation against
\* the normalized schema returns no error and a validated map whose keys
\* are exactly the provided keys that exist in the schema and hold a
\* non-blank value, each with its value stripped of outer whitespace.
C20_RoundTripNonBlankKeys ==
    (pc = "validate_done" /\ ValidFor(call.data, call.input_schema)) =>
        /\ call.result.errors = <<>>
        /\ DOMAIN call.result.validated =
                {k \in DOMAIN call.data :
                    /\ k \in {f.name : f \in DeclaredFields(call.input_schema)}
                    /\ ~Blank(call.data, k)}
        /\ \A k \in DOMAIN call.result.validated :
                call.result.validated[k] = Strip(call.data[k])

\* C20 witness: an object schema with email required and age optional, a
\* record with a padded email and a blank age: no error, email validated
\* without the padding, age left out.
C20_Witness ==
    /\ pc = "validate_done"
    /\ call.input_schema.kind = "object"
    /\ call.input_schema.required = {"email"}
    /\ ValidFor(call.data, call.input_schema)
    /\ DOMAIN call.data = {"email", "age"}
    /\ call.data["age"] = <<WS>>
    /\ call.data["email"] = <<WS, "a@b.co", WS>>
    /\ call.result.errors = <<>>
    /\ DOMAIN call.result.validated = {"email"}
    /\ call.result.validated["email"] = <<"a@b.co">>

\* --------------------------------------------- tool_execution on its own
\* nodes.tool_execution_node, the except branch of the node: the result
\* holds the exception text only, and a visible message is appended
tool_execution_except(st, e) ==
    LET new_state == [st EXCEPT
            !.tool_result = [error |-> e],
            !.messages = Append(@, Msg("assistant", <<"Tool error:", WS>> \o e))]
    IN  log_node_execution("TOOL_EXECUTION", st, new_state)

\* str(e) of the AttributeError raised by extracted_data.items() when the
\* state holds extracted_data = None
NoneHasNoItems == <<"'NoneType' object has no attribute 'items'">>

ToolChoices == tool_names \cup {"", "tavily", "email"}

\* tool types execute_tool is called with, registered or not
ToolTypes == AVAILABLE_TOOLS \cup {"generic", "email"}

\* tool_execution_node called on any state the tool pipeline can hand it,
\* and on a state whose extracted_data is None; execute_tool called with
\* any tool type
ToolInit ==
    /\ state \in {[InitialState EXCEPT !.extracted_data = d,
                                       !.chosen_tool = t,
                                       !.next_action = a,
                                       !.validation_errors = <<>>]
                    : d \in FieldDicts, t \in ToolChoices,
                      a \in {"tool_execution", "web_search"}}
    /\ call \in {[tool_type |-> ty, outcome |-> o, extracted_data_is_none |-> n]
                    : ty \in ToolTypes, o \in ToolOutcomes, n \in BOOLEAN}
    /\ call.extracted_data_is_none => state.extracted_data = EmptyDict
    /\ pc = "tool_execution"
    /\ translation_enabled = FALSE
    /\ llm_response = <<>>
    /\ turns = 0
    /\ trace = <<>>
    /\ streak = [tool |-> "", n |-> 0]

ToolCall ==
    /\ pc = "tool_execution"
    /\ Run(IF call.extracted_data_is_none
           THEN tool_execution_except(state, NoneHasNoItems)
           ELSE tool_execution_node(state, call.outcome))
    /\ call' = [tool_type |-> call.tool_type,
                outcome |-> call.outcome,
                extracted_data_is_none |-> call.extracted_data_is_none,
                result |-> execute_tool(call.tool_type, call.outcome)]
    /\ UNCHANGED <<translation_enabled, llm_response, turns, streak>>

ToolSpec == ToolInit /\ [][ToolCall]_vars

\* the keys of the envelope every tool function and execute_tool return
EnvelopeKeys == {"success", "type", "message"}

\* C21 (as claimed): when the tool to run resolves to a registered type and
\* the tool's backend succeeds, tool_execution stores the envelope of the
\* tool function, with success = true.
C21_RegisteredToolSucceeds ==
    (JustRan("tool_execution") /\ call.outcome = "success") =>
        /\ call.tool_type \in AVAILABLE_TOOLS => ResultSuccess(call.result)
        /\ (/\ ~call.extracted_data_is_none
            /\ resolve_tool_type(state) \in AVAILABLE_TOOLS)
                => ResultSuccess(state.tool_result)

\* C22: whatever the tool type, registered or not, and whatever the tool
\* function would do, execute_tool returns an envelope, which
\* tool_execution stores, and the graph goes on to tool_answer.
C22_ExecuteToolReturnsEnvelope ==
    JustRan("tool_execution") =>
        /\ EnvelopeKeys \subseteq DOMAIN call.result
        /\ call.result.type = call.tool_type
        /\ ~call.extracted_data_is_none =>
                /\ EnvelopeKeys \subseteq DOMAIN state.tool_result
                /\ state.tool_result.type = resolve_tool_type(state)
        /\ pc = "tool_answer"

\* C22 witness: execute_tool was called with "email", which is not
\* registered, for a tool function that would raise, and returned a failure
\* envelope; the node stored a failure envelope and tool_answer is next.
C22_Witness ==
    /\ JustRan("tool_execution")
    /\ ~call.extracted_data_is_none
    /\ call.tool_type = "email" /\ call.outcome = "raise"
    /\ call.result.success = FALSE /\ call.result.error # <<>>
    /\ state.tool_result.success = FALSE
    /\ pc = "tool_answer"

\* C23 (as claimed): every tool_result stored by tool_execution has a
\* boolean success flag, and an error text whenever success is not true.
C23_ResultHasSuccessAndError ==
    JustRan("tool_execution") =>
        /\ "success" \in DOMAIN state.tool_result
        /\ state.tool_result.success \in BOOLEAN
        /\ ~state.tool_result.success =>
                /\ "error" \in DOMAIN state.tool_result
                /\ state.tool_result.error # <<>>

\* --------------------------------------------- exit_evaluator on its own
\* the graph has no edge into exit_evaluator; the node and its router are
\* run on any state of a conversation, under any configured conditions
StrExpr(t) == [kind |-> "str", text |-> t]

WellFormedConditions ==
    {[type |-> "prompt", expression |-> StrExpr(<<"bye", "|", WS, "end">>)],
     [type |-> "prompt", expression |-> StrExpr(<<"/", "bye", "/">>)],
     [type |-> "logical", expression |-> StrExpr(<<"is_data_complete">>)],
     [type |-> "tool_event",
      expression |-> [kind |-> "dict", tool |-> "web_search", status |-> "success"]],
     [type |-> "max_turns", expression |-> [kind |-> "int", n |-> 2]]}

MalformedConditions ==
    {[expression |-> StrExpr(<<"bye">>)],
     [type |-> "timer", expression |-> [kind |-> "int", n |-> 2]],
     [type |-> "prompt", expression |-> [kind |-> "list", items |-> <<<<"bye">>>>]],
     [type |-> "tool_event", expression |-> StrExpr(<<"success">>)],
     [type |-> "max_turns", expression |-> StrExpr(<<"soon">>)]}

ExitConditions == WellFormedConditions \cup MalformedConditions

ExitModes == {"", "or", "OR", "and"}

ExitMessages ==
    {<<>>,
     <<Msg("user", <<"hi">>)>>,
     <<Msg("user", <<"hi">>), Msg("assistant", <<"hello">>)>>,
     <<Msg("user", <<"hi">>), Msg("assistant", <<"hello">>), Msg("user", <<"END">>)>>}

ExitInit ==
    /\ state \in {[InitialState EXCEPT !.messages = m,
                                       !.extracted_data = d,
                                       !.tool_result = r,
                                       !.conversation_active = active,
                                       !.next_action = a]
                    : m \in ExitMessages,
                      d \in {EmptyDict, "query" :> <<"cats">>},
                      r \in {EmptyDict, execute_tool("web_search", "success")},
                      active \in BOOLEAN,
                      a \in {"chat", "end"}}
    /\ call \in {[conditions |-> c, mode |-> m]
                    : c \in UNION {[1..n -> ExitConditions] : n \in 0..MaxConditions},
                      m \in ExitModes}
    /\ pc = "exit_evaluator"
    /\ translation_enabled = FALSE
    /\ llm_response = <<>>
    /\ turns = 0
    /\ trace = <<>>
    /\ streak = [tool |-> "", n |-> 0]

\* the condition evaluate() was given holds
Holds(cond, st) == evaluate(cond, st, st.messages).value

\* evaluate() raises on one of the conditions
EvaluateRaises(conditions, st) ==
    \E i \in DOMAIN conditions : evaluate(conditions[i], st, st.messages).raised

ExitEvaluator ==
    /\ pc = "exit_evaluator"
    /\ ~EvaluateRaises(call.conditions, state)
    /\ Run(exit_evaluator_node(state, call.conditions, call.mode))
    /\ UNCHANGED <<call, translation_enabled, llm_response, turns, streak>>

ExitEvaluatorRaises ==
    /\ EvaluateRaises(call.conditions, state)
    /\ LLMCallRaises("exit_evaluator")

ExitSpec == ExitInit /\ [][ExitEvaluator \/ ExitEvaluatorRaises]_vars

\* the configured mode combines conditions with "or"
OrMode == call.mode \in {"", "or", "OR"}

C25_EvaluationNeverRaises ==
    /\ pc # "__raised__"
    /\ \A i \in DOMAIN call.conditions :
            call.conditions[i] \in MalformedConditions
                => ~Holds(call.conditions[i], state)

\* C26 (as claimed): after exit_evaluator ran, the graph goes to end if a
\* configured exit condition was met or the state the node was invoked on
\* had conversation_active = false, and to decision_router otherwise.
C26_ExitRouting ==
    [][(pc = "exit_evaluator" /\ NodeRan) =>
        LET conds == {call.conditions[i] : i \in DOMAIN call.conditions}
            met == IF OrMode THEN \E c \in conds : Holds(c, state)
                   ELSE conds # {} /\ \A c \in conds : Holds(c, state)
        IN  pc' = IF met \/ ~state.conversation_active
                  THEN "end" ELSE "decision_router"]_vars

\* ------------------------------------- NewsAnalysisWorkflow: three tiers
\* generate_questions and analyze_answers of llamaindex_agent: a JSON-mode
\* LLM call, then a conversational LLM call, then a canned default. Here
\* `state` is the workflow object (self.questions, self.analysis), `call`
\* holds the step, its event, what each LLM answers and the events returned
\* so far, pc is the tier about to run and trace the tiers run in this call.
WorkflowSteps == {"generate_questions", "analyze_answers"}

\* what an LLM does with the prompt: it raises, answers prose, answers a
\* JSON object without a "questions" key, or a JSON object with one
LLMOutputs == {"raise", "prose", "json_object", "json_questions"}

\* the JSON objects the LLM answers, parsed
ParsedObject(out) ==
    IF out = "json_questions"
    THEN [questions |-> <<[question |-> <<"Who won?">>,
                           correct_answer |-> <<"Nobody">>,
                           question_type |-> "factual"]>>]
    ELSE [overall_analysis |-> [total_score |-> 90, grade |-> "A"]]

\* attempt accepting whatever the LLM answers
attempt_accept_any(step, out) ==
    [ok |-> TRUE,
     value |-> IF step = "generate_questions" THEN <<>> ELSE ParsedObject("json_object")]

\* the body of one try: llm.invoke(prompt).content.strip(), json.loads,
\* and for generate_questions the lookup of ["questions"]
attempt(step, out) ==
    IF out \in {"raise", "prose"} THEN [ok |-> FALSE, value |-> <<>>]
    ELSE IF step = "generate_questions"
    THEN (IF "questions" \in DOMAIN ParsedObject(out)
          THEN [ok |-> TRUE, value |-> ParsedObject(out).questions]
          ELSE [ok |-> FALSE, value |-> <<>>])
    ELSE [ok |-> TRUE, value |-> ParsedObject(out)]

\* dict.get(key, default)
GetOr(d, k, default) == IF k \in DOMAIN d THEN d[k] ELSE default

\* canned default that carries over what the workflow object holds from an
\* earlier call
canned_default_from_self(self, step, ev) ==
    IF step = "generate_questions"
    THEN Append(self.questions,
                [question |-> <<"What is the main topic of this article?">>,
                 correct_answer |-> <<"Main topic based on article content">>,
                 question_type |-> "main_idea"])
    ELSE [overall_analysis |-> [total_score |-> 75, grade |-> "C+"],
          previous |-> self.analysis]

\* the final fallback of generate_questions (fallback_questions) and of
\* analyze_answers (fallback_analysis)
canned_default(self, step, ev) ==
    IF step = "generate_questions"
    THEN <<[question |-> <<"What is the main topic of this article? (in", WS,
                           ev.language, ")">>,
            correct_answer |-> <<"Main topic based on article content">>,
            question_type |-> "main_idea"],
           [question |-> <<"What are the key details mentioned in this article? (in",
                           WS, ev.language, ")">>,
            correct_answer |-> <<"Key details from the article">>,
            question_type |-> "detail"]>>
    ELSE [overall_analysis |->
            [total_score |-> 75, grade |-> "C+",
             performance_level |-> "Satisfactory",
             encouragement |-> <<"Good effort! Keep practicing to improve your comprehension skills.">>],
          question_analyses |->
            [i \in DOMAIN ev.answers |->
                [question_number |-> i,
                 question_text |-> GetOr(ev.answers[i], "question",
                                         <<"Question not available">>),
                 user_answer |-> GetOr(ev.answers[i], "user_answer",
                                       <<"No answer provided">>),
                 overall_score |-> 72,
                 grade |-> "C+",
                 detailed_feedback |->
                    <<"Shows understanding but could be more detailed and analytical">>]]]

\* QuestionsGeneratedEvent / AnalysisCompleteEvent
CompleteEvent(step, ev, value, fallback) ==
    IF step = "generate_questions"
    THEN [success |-> TRUE, questions |-> value, language |-> ev.language,
          fallback |-> fallback]
    ELSE [success |-> TRUE, analysis |-> value, fallback |-> fallback]

\* self.questions = ... / self.analysis = ...
Store(self, step, value) ==
    IF step = "generate_questions" THEN [self EXCEPT !.questions = value]
    ELSE [self EXCEPT !.analysis = value]

WorkflowEvents ==
    {[language |-> l, answers |-> a]
        : l \in {"en", "hu"},
          a \in {<<>>,
                 <<[question |-> <<"Who won?">>, user_answer |-> <<"Nobody">>]>>,
                 <<[question |-> <<"Who won?">>, user_answer |-> <<"Nobody">>],
                   [question |-> <<"Why?">>]>>}}

TierInit ==
    /\ call \in {[step |-> s, ev |-> e, json_llm |-> j, conversation_llm |-> c,
                   returned |-> <<>>]
                    : s \in WorkflowSteps, e \in WorkflowEvents,
                      j \in LLMOutputs, c \in LLMOutputs}
    /\ state = [questions |-> <<>>, analysis |-> <<>>]
    /\ pc = "json_llm"
    /\ trace = <<>>
    /\ translation_enabled = FALSE
    /\ llm_response = <<>>
    /\ turns = 0
    /\ streak = [tool |-> "", n |-> 0]

\* the step returns the event: the value is stored on the workflow object
Return(value, fallback) ==
    /\ state' = Store(state, call.step, value)
    /\ call' = [call EXCEPT !.returned =
                    Append(@, CompleteEvent(call.step, call.ev, value, fallback))]
    /\ pc' = "returned"

\* one try block with the LLM of this tier; its except leads to next_tier
TryTier(tier, out, next_tier) ==
    /\ pc = tier
    /\ trace' = Append(trace, tier)
    /\ IF attempt(call.step, out).ok
       THEN Return(attempt(call.step, out).value, FALSE)
       ELSE pc' = next_tier /\ UNCHANGED <<state, call>>
    /\ UNCHANGED <<translation_enabled, llm_response, turns, streak>>

JsonAttempt == TryTier("json_llm", call.json_llm, "conversation_llm")

ConversationAttempt ==
    TryTier("conversation_llm", call.conversation_llm, "canned_default")

CannedDefault ==
    /\ pc = "canned_default"
    /\ trace' = Append(trace, "canned_default")
    /\ Return(canned_default(state, call.step, call.ev), TRUE)
    /\ UNCHANGED <<translation_enabled, llm_response, turns, streak>>

\* the same step is run a second time on the same workflow object, with the
\* same event and the same LLM answers
CallAgain ==
    /\ pc = "returned"
    /\ Len(call.returned) = 1
    /\ pc' = "json_llm"
    /\ trace' = <<>>
    /\ UNCHANGED <<call, state, translation_enabled, llm_response, turns, streak>>

TierSpec ==
    TierInit /\ [][JsonAttempt \/ ConversationAttempt \/ CannedDefault \/ CallAgain]_vars

\* the LLM answer gives the step nothing it can parse
Unparsable(step, out) ==
    \/ out \in {"raise", "prose"}
    \/ step = "generate_questions" /\ out = "json_object"

\* C27: the conversational LLM is called only after the JSON-mode attempt
\* failed, the canned default is used only after both attempts failed, the
\* returned event has fallback = true exactly when the canned default was
\* used, that is exactly when both LLM answers were unparsable, and every
\* call ends by returning a success event.
C27_TiersInOrder ==
    /\ pc \in {"json_llm", "conversation_llm", "canned_default", "returned"}
    /\ InTrace("conversation_llm") =>
            /\ trace[1] = "json_llm" /\ trace[2] = "conversation_llm"
            /\ Unparsable(call.step, call.json_llm)
    /\ InTrace("canned_default") =>
            /\ trace = <<"json_llm", "conversation_llm", "canned_default">>
            /\ Unparsable(call.step, call.json_llm)
            /\ Unparsable(call.step, call.conversation_llm)
    /\ pc = "returned" =>
            /\ Last(call.returned).success
            /\ Last(call.returned).fallback <=> Last(trace) = "canned_default"
            /\ Last(call.returned).fallback <=>
                    /\ Unparsable(call.step, call.json_llm)
                    /\ Unparsable(call.step, call.conversation_llm)

\* C27 witness: generate_questions got a JSON object without "questions"
\* from the JSON-mode LLM and prose from the conversational LLM, and
\* returned the two canned questions flagged fallback.
C27_Witness ==
    /\ pc = "returned"
    /\ call.step = "generate_questions"
    /\ call.json_llm = "json_object" /\ call.conversation_llm = "prose"
    /\ trace = <<"json_llm", "conversation_llm", "canned_default">>
    /\ Last(call.returned).fallback
    /\ Len(Last(call.returned).questions) = 2

\* C28: two calls of the step with the same event and the same unparsable
\* LLM answers in both tiers return the same fallback event, whatever the
\* first call left on the workflow object.
C28_FallbackDeterministic ==
    (/\ Len(call.returned) = 2
     /\ Unparsable(call.step, call.json_llm)
     /\ Unparsable(call.step, call.conversation_llm))
        => call.returned[1] = call.returned[2]

\* C28 witness: analyze_answers returned twice on two answers, both times
\* the canned analysis, and the workflow object holds it.
C28_Witness ==
    /\ Len(call.returned) = 2
    /\ call.step = "analyze_answers"
    /\ Len(call.ev.answers) = 2
    /\ call.returned[1].fallback /\ call.returned[2].fallback
    /\ call.returned[1] = call.returned[2]
    /\ Len(call.returned[2].analysis.question_analyses) = 2
    /\ state.analysis = call.returned[1].analysis

\* ------------------------------------------------- dual_search_agent
\* functional_api_dual_search_agent: the RAG task and the web task run
\* concurrently, asyncio.gather joins them, _synthesize_answer builds the
\* answer. `call` holds the query and what the backends and the LLM do,
\* `state` the two task futures and what the entrypoint has computed.
RagBackends == {"results", "empty", "setup_failed", "constructor_raises"}

WebBackends == {"results", "search_failed", "no_api_key"}

Done(value) == [status |-> "done", value |-> value]

Failed(e) == [status |-> "raised", error |-> e]

Running == [status |-> "running"]

\* rag_search_task: setup_rag() may raise in RAGSetup.__init__, return
\* None, or return a RAGSetup whose search() catches its own errors
rag_search_task(query, backend) ==
    IF backend = "constructor_raises" THEN Failed(<<"ValidationError">>)
    ELSE IF backend = "setup_failed"
    THEN Done([success |-> FALSE, type |-> "rag",
               message |-> <<"RAG not available (setup failed)">>,
               data |-> [query |-> query, results |-> <<>>]])
    ELSE LET results == IF backend = "results"
                        THEN <<[text |-> <<"chunk about", WS>> \o query]>>
                        ELSE <<>>
         IN  Done([success |-> TRUE, type |-> "rag",
                   message |-> <<"RAG returned", WS, "results">>,
                   data |-> [query |-> query, results |-> results]])

\* web_search_task: web_search_tool returns an envelope in every case
web_search_task(query, backend) ==
    IF backend = "results"
    THEN Done([success |-> TRUE, type |-> "tavily",
               message |-> <<"Found", WS, "results for:", WS>> \o query,
               data |-> [query |-> query,
                         results |-> <<[title |-> <<"page">>, snippet |-> query]>>]])
    ELSE Done([success |-> FALSE, type |-> "web_search",
               message |-> IF backend = "no_api_key"
                           THEN <<"Web search unavailable: Tavily API key not configured">>
                           ELSE <<"Tavily search failed:", WS, "timeout">>,
               error |-> IF backend = "no_api_key"
                         THEN <<"Missing Tavily API key">> ELSE <<"timeout">>,
               data |-> [query |-> query]])

\* rag_data.get("data", {}).get("results") or []
ResultsOf(envelope) ==
    IF "data" \in DOMAIN envelope /\ "results" \in DOMAIN envelope.data
    THEN envelope.data.results ELSE <<>>

\* _synthesize_answer: the prompt built from both contexts, and the answer
\* of the LLM, which may raise
SynthesisPrompt(user_query, rag_data, web_data) ==
    [question |-> user_query,
     rag_bits |-> [i \in DOMAIN ResultsOf(rag_data) |-> ResultsOf(rag_data)[i].text],
     web_bits |-> [i \in DOMAIN ResultsOf(web_data) |->
                    ResultsOf(web_data)[i].title \o <<" - ">>
                        \o ResultsOf(web_data)[i].snippet]]

DualInit ==
    /\ call \in {[user_input |-> q, rag |-> rb, web |-> wb, llm |-> l]
                    : q \in {<<"cats">>, <<"dogs">>},
                      rb \in RagBackends, wb \in WebBackends,
                      l \in {LLMText(<<"answer">>), LLMRaise}}
    /\ state = [rag_future |-> Running, web_future |-> Running,
                prompt |-> [question |-> <<>>, rag_bits |-> <<>>, web_bits |-> <<>>],
                result |-> <<>>]
    /\ pc = "gather"
    /\ trace = <<>>
    /\ translation_enabled = FALSE
    /\ llm_response = <<>>
    /\ turns = 0
    /\ streak = [tool |-> "", n |-> 0]

\* the RAG task finishes; it is not cancelled when the entrypoint has raised
RagSearchTask ==
    /\ state.rag_future = Running
    /\ state' = [state EXCEPT !.rag_future = rag_search_task(call.user_input, call.rag)]
    /\ UNCHANGED <<call, pc, trace, translation_enabled, llm_response, turns, streak>>

WebSearchTask ==
    /\ state.web_future = Running
    /\ state' = [state EXCEPT !.web_future = web_search_task(call.user_input, call.web)]
    /\ UNCHANGED <<call, pc, trace, translation_enabled, llm_response, turns, streak>>

\* await asyncio.gather(rag_future, web_future): both results once both
\* tasks are done, the exception of a task as soon as it has raised
Gather ==
    /\ pc = "gather"
    /\ IF \E f \in {state.rag_future, state.web_future} : f.status = "raised"
       THEN pc' = "__raised__" /\ trace' = Append(trace, "__raised__")
       ELSE /\ state.rag_future.status = "done"
            /\ state.web_future.status = "done"
            /\ pc' = "synthesis"
            /\ trace' = Append(trace, "gather")
    /\ UNCHANGED <<call, state, translation_enabled, llm_response, turns, streak>>

\* _synthesize_answer and the result of the entrypoint
Synthesis ==
    /\ pc = "synthesis"
    /\ LET rag_res == state.rag_future.value
           web_res == state.web_future.value
           prompt == SynthesisPrompt(call.user_input, rag_res, web_res)
       IN  IF call.llm.raised
           THEN /\ pc' = "__raised__"
                /\ trace' = Append(trace, "__raised__")
                /\ state' = [state EXCEPT !.prompt = prompt]
           ELSE /\ pc' = "returned"
                /\ trace' = Append(trace, "synthesis")
                /\ state' = [state EXCEPT
                        !.prompt = prompt,
                        !.result = [message |-> Strip(call.llm.text),
                                    sources |-> [rag |-> ResultsOf(rag_res),
                                                 web |-> ResultsOf(web_res)],
                                    tool_summaries |-> [rag |-> rag_res.message,
                                                        web |-> web_res.message]]]
    /\ UNCHANGED <<call, translation_enabled, llm_response, turns, streak>>

DualSpec == DualInit /\ [][RagSearchTask \/ WebSearchTask \/ Gather \/ Synthesis]_vars

\* C29 (as claimed): a failure of the RAG branch, returned as a failure
\* envelope or raised inside the task, does not keep the web results from
\* the synthesis step: the entrypoint raises only when the synthesis LLM
\* does, and the prompt of the synthesis holds the web results whenever the
\* web search found some.
C29_BranchFailureTolerated ==
    /\ pc = "__raised__" => call.llm.raised
    /\ (pc \in {"returned", "__raised__"} /\ call.web = "results")
            => state.prompt.web_bits # <<>>
    /\ pc = "returned" => state.result.message # <<>>

\* ------------------------------------------------ multi_session_server
\* MultiSessionAgentServer: POST /query handlers run on the event loop and
\* hand agent.invoke to the default executor. `state` holds
\* active_sessions and the agent turns in progress in executor threads,
\* `turns` counts the requests received.
SessionIds == {"alice", "bob"}

\* str(uuid.uuid4()) for the n-th request
Uuid(n) == <<"uuid-1", "uuid-2", "uuid-3", "uuid-4", "uuid-5">>[n]

ServerInit ==
    /\ state = [active_sessions |-> EmptyDict, in_progress |-> {}, responses |-> {}]
    /\ pc = "serving"
    /\ turns = 0
    /\ call = <<>>
    /\ trace = <<>>
    /\ translation_enabled = FALSE
    /\ llm_response = <<>>
    /\ streak = [tool |-> "", n |-> 0]

\* self.active_sessions after the handler has tracked the session
Tracked(active_sessions, session_id) ==
    [k \in DOMAIN active_sessions \cup {session_id} |->
        [queries |-> IF k = session_id
                     THEN (IF k \in DOMAIN active_sessions
                           THEN active_sessions[k].queries ELSE 0) + 1
                     ELSE active_sessions[k].queries]]

\* query_agent up to the await: the session is tracked and agent.invoke is
\* submitted to the executor, whatever else runs for that session
QueryAgent ==
    /\ turns < MaxRequests
    /\ \E requested \in SessionIds \cup {""} :
        LET session_id == IF requested = "" THEN Uuid(turns + 1) ELSE requested
        IN  state' = [state EXCEPT
                !.active_sessions = Tracked(@, session_id),
                !.in_progress = @ \cup {[request |-> turns + 1,
                                          session_id |-> session_id]}]
    /\ turns' = turns + 1
    /\ UNCHANGED <<call, pc, trace, translation_enabled, llm_response, streak>>

\* agent.invoke returns in its thread and the handler answers
AgentReturns ==
    /\ \E turn \in state.in_progress :
        state' = [state EXCEPT !.in_progress = @ \ {turn},
                               !.responses = @ \cup {turn}]
    /\ UNCHANGED <<call, pc, turns, trace, translation_enabled, llm_response, streak>>

\* DELETE /sessions/{session_id}
ClearSession ==
    /\ \E session_id \in DOMAIN state.active_sessions :
        state' = [state EXCEPT !.active_sessions =
                    [k \in DOMAIN @ \ {session_id} |-> @[k]]]
    /\ UNCHANGED <<call, pc, turns, trace, translation_enabled, llm_response, streak>>

ServerSpec == ServerInit /\ [][QueryAgent \/ AgentReturns \/ ClearSession]_vars

\* C30 (as claimed): at any time at most one agent turn is in progress for
\* a given session id.
C30_OneTurnPerSession ==
    \A a, b \in state.in_progress : a.session_id = b.session_id => a = b

\* ------------------------------------------------ functional_api_agent
\* The entrypoint `agent` invoked with a session id as thread_id: language
\* detection and translation, react_agent_task, translation back. `state`
\* holds what outlives a turn: the checkpoints of react_agent by thread id
\* and the DETECTED_LANGUAGE global. `call` is the log of the turns run:
\* who asked what, and the messages react_agent had in front of it.
AgentTexts == {<<"hi">>, <<"szia">>, <<"cats">>}

\* what the LLM answers to the language detection prompt
DetectLanguage(user_input) == IF user_input = <<"szia">> THEN "hu" ELSE "en"

\* detect_and_translate_to_english
detect_and_translate_to_english(user_input) ==
    IF DetectLanguage(user_input) \in {"en", "english"}
    THEN [original_language |-> "en", translated_input |-> user_input]
    ELSE [original_language |-> DetectLanguage(user_input),
          translated_input |-> <<"hi">>]

\* react_agent_task: "react-" + md5(user_input)[:8]; the digest is a
\* function of the text alone, and distinct for the texts used here
react_thread_id(session_id, user_input) == <<"react-">> \o user_input

\* MemorySaver.get: the messages checkpointed for a thread, [] if none
Checkpoint(memory, thread_id) ==
    IF thread_id \in DOMAIN memory THEN memory[thread_id] ELSE <<>>

AgentInit ==
    /\ state = [react_memory |-> EmptyDict, DETECTED_LANGUAGE |-> "en"]
    /\ call = <<>>
    /\ turns = 0
    /\ pc = "serving"
    /\ trace = <<>>
    /\ translation_enabled = TRUE
    /\ llm_response = <<>>
    /\ streak = [tool |-> "", n |-> 0]

\* one turn of agent(user_input) under config thread_id = session_id
AgentTurn ==
    /\ turns < MaxRequests
    /\ \E session_id \in SessionIds, user_input \in AgentTexts :
        LET translation_result == detect_and_translate_to_english(user_input)
            processing_input == translation_result.translated_input
            thread_id == react_thread_id(session_id, processing_input)
            seen == Checkpoint(state.react_memory, thread_id)
            written == <<[session_id |-> session_id, turn |-> turns + 1,
                          role |-> "user", content |-> processing_input],
                         [session_id |-> session_id, turn |-> turns + 1,
                          role |-> "assistant", content |-> <<"answer">>]>>
        IN  /\ state' = [react_memory |->
                            [t \in DOMAIN state.react_memory \cup {thread_id} |->
                                IF t = thread_id THEN seen \o written
                                ELSE state.react_memory[t]],
                         DETECTED_LANGUAGE |-> DetectLanguage(user_input)]
            /\ call' = Append(call, [session_id |-> session_id,
                                     user_input |-> user_input,
                                     seen |-> seen])
    /\ turns' = turns + 1
    /\ UNCHANGED <<pc, trace, translation_enabled, llm_response, streak>>

AgentSpec == AgentInit /\ [][AgentTurn]_vars

\* C31 (as claimed): the messages react_agent has in front of it in a turn
\* were all written by turns of the same session.
C31_SessionsIsolated ==
    \A i \in DOMAIN call : \A j \in DOMAIN call[i].seen :
        call[i].seen[j].session_id = call[i].session_id

\* C32 (as claimed): in a later turn of a session react_agent has the
\* messages of every earlier turn of that session in front of it.
C32_SessionMemoryShared ==
    \A i, k \in DOMAIN call :
        (k < i /\ call[k].session_id = call[i].session_id) =>
            \E j \in DOMAIN call[i].seen :
                call[i].seen[j].turn = k /\ call[i].seen[j].role = "user"

\* ------------------------------------------- prompt functions of a graph
\* create_conversation_graph called several times in one process. `state`
\* holds the module globals of nodes.py and, per graph created, the
\* prompt_functions it was created with; `call` logs each node run with
\* the prompt builder the node called.
MaxGraphs == 2

PromptTags == {"support", "sales"}

\* a prompt_functions dictionary; its values are told apart by the tag
PromptFunctions(tag) ==
    [base_system_prompt |-> <<"BASE_SYSTEM_PROMPT", tag>>,
     tool_descriptions |-> <<"TOOL_DESCRIPTIONS", tag>>,
     build_input_extraction_prompt |-> <<"build_input_extraction_prompt", tag>>,
     build_decision_prompt |-> <<"build_decision_prompt", tag>>,
     build_conversational_response_prompt |->
         <<"build_conversational_response_prompt", tag>>,
     build_tool_use_prompt |-> <<"build_tool_use_prompt", tag>>]

\* the globals of nodes.py at import: all None
PromptGlobals ==
    [BASE_SYSTEM_PROMPT |-> <<>>,
     TOOL_DESCRIPTIONS |-> <<>>,
     build_input_extraction_prompt |-> <<>>,
     build_decision_prompt |-> <<>>,
     build_conversational_response_prompt |-> <<>>,
     build_tool_use_prompt |-> <<>>]

set_prompt_functions(base_system_prompt, tool_descriptions, input_extraction_fn, decision_fn, conversational_response_fn, tool_use_fn) ==
    [BASE_SYSTEM_PROMPT |-> base_system_prompt,
     TOOL_DESCRIPTIONS |-> tool_descriptions,
     build_input_extraction_prompt |-> input_extraction_fn,
     build_decision_prompt |-> decision_fn,
     build_conversational_response_prompt |-> conversational_response_fn,
     build_tool_use_prompt |-> tool_use_fn]

\* the global a node reads when it builds its prompt, and the key of
\* prompt_functions that global is set from
PromptUses ==
    [chat |-> [global |-> "build_conversational_response_prompt",
               key |-> "build_conversational_response_prompt"],
     decision_router |-> [global |-> "build_decision_prompt",
                          key |-> "build_decision_prompt"],
     input_translation |-> [global |-> "BASE_SYSTEM_PROMPT",
                            key |-> "base_system_prompt"]]

GraphInit ==
    /\ state = [globals |-> PromptGlobals, graphs |-> <<>>]
    /\ call = <<>>
    /\ turns = 0
    /\ pc = "process"
    /\ trace = <<>>
    /\ translation_enabled = TRUE
    /\ llm_response = <<>>
    /\ streak = [tool |-> "", n |-> 0]

create_conversation_graph ==
    /\ Len(state.graphs) < MaxGraphs
    /\ \E tag \in PromptTags :
        LET prompt_functions == PromptFunctions(tag)
        IN  state' = [globals |-> set_prompt_functions(
                            prompt_functions["base_system_prompt"],
                            prompt_functions["tool_descriptions"],
                            prompt_functions["build_input_extraction_prompt"],
                            prompt_functions["build_decision_prompt"],
                            prompt_functions["build_conversational_response_prompt"],
                            prompt_functions["build_tool_use_prompt"]),
                      graphs |-> Append(state.graphs, prompt_functions)]
    /\ UNCHANGED <<pc, translation_enabled, llm_response, turns, trace, streak, call>>

\* a node of one of the compiled graphs runs and builds its prompt
GraphNodeRuns ==
    /\ turns < MaxRequests
    /\ \E graph \in DOMAIN state.graphs, node \in DOMAIN PromptUses :
        call' = Append(call, [graph |-> graph, node |-> node,
                              used |-> state.globals[PromptUses[node].global]])
    /\ turns' = turns + 1
    /\ UNCHANGED <<state, pc, translation_enabled, llm_response, trace, streak>>

GraphSpec == GraphInit /\ [][create_conversation_graph \/ GraphNodeRuns]_vars

\* C40 (as claimed): the prompt builder a node of a compiled graph calls is
\* the one passed to create_conversation_graph for that graph, also after
\* another graph has been created.
C40_GraphKeepsItsPromptFunctions ==
    \A i \in DOMAIN call :
        call[i].used = state.graphs[call[i].graph][PromptUses[call[i].node].key]

\* ------------------------------------ tool_execution over configurations
\* tool_execution_node under several config["tools"] lists: `call` holds
\* the list and what the tool function would do, `state` a state the
\* pipeline hands over with chosen_tool one of the enabled tools.
ToolConfigs ==
    {Tools,
     <<[name |-> "contact_form", type |-> "input", impl |-> "sheets",
        enabled |-> TRUE],
       [name |-> "crm_lookup", type |-> "retrieval", impl |-> "crm",
        enabled |-> TRUE]>>,
     <<[name |-> "web_search", type |-> "retrieval", impl |-> "tavily",
        enabled |-> TRUE]>>}

\* index of the first tool of the list satisfying P, 0 if none
FirstOf(tools, P(_)) ==
    IF \E i \in DOMAIN tools : P(tools[i])
    THEN CHOOSE i \in DOMAIN tools :
            P(tools[i]) /\ \A j \in 1..(i - 1) : ~P(tools[j])
    ELSE 0

\* utilities.get_selected_tool_config for a given config["tools"]
selected_tool_config(tools, st) ==
    LET preferred == IF st.chosen_tool # "" THEN st.chosen_tool ELSE st.next_action
        IsPreferred(t) == t.name = preferred /\ t.enabled
        IsEnabled(t) == t.enabled
        i == FirstOf(tools, IsPreferred)
        j == FirstOf(tools, IsEnabled)
    IN  IF preferred # "" /\ i # 0 THEN [name |-> preferred, cfg |-> i]
        ELSE IF j # 0 THEN [name |-> tools[j].name, cfg |-> j]
        ELSE [name |-> preferred, cfg |-> 0]

\* utilities.build_runtime_tool_config: the keys of the runtime config
build_runtime_tool_config(tools, st) ==
    LET sel == selected_tool_config(tools, st)
        impl == IF sel.cfg # 0 THEN tools[sel.cfg].impl ELSE ""
    IN  IF impl = "sheets" THEN {"sheet", "required_fields"}
        ELSE IF sel.name = "web_search" THEN {"web_search"}
        ELSE IF impl = "api_retrieval" THEN {"api_retrieval", "tool_name"}
        ELSE {sel.name, "required_fields"}

\* nodes.tool_execution_node lines 749-820 for a given config["tools"]
tool_type_to_execute(tools, st) ==
    LET chosen == st.chosen_tool
        next_action == st.next_action
        t0 == IF chosen # "" THEN chosen
              ELSE IF next_action # "" /\ next_action # "tool_execution" THEN next_action
              ELSE "generic"
        sel == selected_tool_config(tools, st)
        runtime_cfg == build_runtime_tool_config(tools, st)
        Usable(t) == t.type \in {"retrieval", "input"}
                     /\ (t.impl \in AVAILABLE_TOOLS \/ t.name \in AVAILABLE_TOOLS)
        u == FirstOf(tools, Usable)
    IN  IF t0 \in AVAILABLE_TOOLS THEN t0
        ELSE IF sel.cfg # 0 /\ tools[sel.cfg].impl \in AVAILABLE_TOOLS
        THEN tools[sel.cfg].impl
        ELSE IF runtime_cfg \cap AVAILABLE_TOOLS # {}
        THEN CHOOSE k \in runtime_cfg \cap AVAILABLE_TOOLS : TRUE
        ELSE IF u # 0
        THEN (IF tools[u].impl \in AVAILABLE_TOOLS THEN tools[u].impl ELSE tools[u].name)
        ELSE t0

\* nodes.tool_execution_node for a given config["tools"]
tool_execution_node_under(tools, st, outcome) ==
    LET tool_result == execute_tool(tool_type_to_execute(tools, st), outcome)
        new_state == [st EXCEPT !.tool_result = tool_result]
    IN  log_node_execution("TOOL_EXECUTION", st, new_state)

\* the impl entry of the tool of that name
ConfiguredImpl(tools, tool_name) ==
    LET Named(t) == t.name = tool_name
    IN  tools[FirstOf(tools, Named)].impl

ConfigInit ==
    /\ call \in {[tools |-> tools, outcome |-> o]
                    : tools \in ToolConfigs, o \in ToolOutcomes}
    /\ state \in {[InitialState EXCEPT !.extracted_data = d,
                                       !.chosen_tool = t,
                                       !.next_action = "tool_execution",
                                       !.validation_errors = <<>>]
                    : d \in FieldDicts,
                      t \in {call.tools[i].name : i \in
                                {j \in DOMAIN call.tools : call.tools[j].enabled}}}
    /\ pc = "tool_execution"
    /\ translation_enabled = FALSE
    /\ llm_response = <<>>
    /\ turns = 0
    /\ trace = <<>>
    /\ streak = [tool |-> "", n |-> 0]

ConfigToolExecution ==
    /\ pc = "tool_execution"
    /\ Run(tool_execution_node_under(call.tools, state, call.outcome))
    /\ UNCHANGED <<call, translation_enabled, llm_response, turns, streak>>

ConfigSpec == ConfigInit /\ [][ConfigToolExecution]_vars

\* C33 (as claimed): tool_execution leaves chosen_tool as the decision set
\* it, and the implementation it hands to execute_tool is the one the
\* configuration gives for that tool.
C33_ConfiguredImplementationRuns ==
    [][pc = "tool_execution" =>
        /\ state'.chosen_tool = state.chosen_tool
        /\ state'.tool_result.type = ConfiguredImpl(call.tools, state.chosen_tool)]_vars

\* C34 (as claimed): when the JSON-mode response of structured_extractor
\* cannot be parsed, the node has made a second call, with the
\* non-JSON-constrained client, before it falls back to the empty extraction.
C34_RetriesWithConversationLLM ==
    (pc = "extractor_done" /\ call # <<>> /\ ~llm_response.ok) =>
        call = <<"create_json_mode_llm", "create_conversation_llm">>

C36_TranslationFailureKeepsText ==
    [][NodeRan =>
        /\ (pc = "input_translation"
                /\ state' = input_translation_node(state, LLMRaise)) =>
            /\ state'.user_input = state.user_input
            /\ state'.error_message = <<"Translation failed:", WS, "error">>
            /\ pc' = "decision_router"
        /\ (pc = "output_translation"
                /\ state.messages # <<>>
                /\ Last(state.messages).role = "assistant"
                /\ state' = output_translation_node(state, LLMRaise)) =>
            /\ state'.messages = state.messages
            /\ state'.error_message = <<"Response translation failed:", WS, "error">>
            /\ pc' = "wait_user_input"]_vars

\* C36 witness: a turn whose input translation failed went on through the
\* router and chat with the user's own words, and its output translation
\* failed too: the reply stands untranslated and the turn is over.
C36_Witness ==
    /\ JustRan("output_translation")
    /\ InTrace("input_translation")
    /\ pc = "wait_user_input"
    /\ state.error_message = <<"Response translation failed:", WS, "error">>
    /\ state.messages = <<Msg("user", <<"hi">>), Msg("assistant", <<"sure">>)>>

\* C37 (as claimed): exit_evaluator finds a max_turns condition with
\* threshold N met only when the messages hold at least N user messages.
C37_MaxTurnsCountsUserMessages ==
    [][(pc = "exit_evaluator" /\ NodeRan) =>
        \A i \in DOMAIN call.conditions :
            LET cond == call.conditions[i]
            IN  ("type" \in DOMAIN cond /\ cond.type = "max_turns"
                    /\ cond.expression.kind = "int" /\ Holds(cond, state))
                    => count_user_messages(state.messages) >= cond.expression.n]_vars

\* the number of assistant messages that follow the last user message
AssistantMessagesOfTurn(msgs) ==
    LET users == {i \in DOMAIN msgs : msgs[i].role = "user"}
    IN  Cardinality({i \in DOMAIN msgs :
            msgs[i].role = "assistant" /\ \A u \in users : u < i})

\* C38 (as claimed): when a turn that began with a user message has run to
\* its end through chat or tool_answer, exactly one assistant message
\* follows that user message.
C38_OneAssistantMessagePerTurn ==
    (pc = "wait_user_input" /\ trace # <<>> /\ Last(trace) \in {"chat", "tool_answer"})
        => AssistantMessagesOfTurn(state.messages) = 1

\* C39: in a run of the graph from wait_user_input no edge leads to
\* exit_evaluator, so it never runs, and the end node is entered only from
\* decision_router, on a decision of "end".
C39_ExitEvaluatorNeverRuns ==
    /\ pc # "exit_evaluator"
    /\ ~InTrace("exit_evaluator")
    /\ pc = "end" =>
        /\ trace # <<>> /\ Last(trace) = "decision_router"
        /\ state.next_action = "end"
        /\ parse_decision(llm_response).next_action = "end"
    /\ \A i \in DOMAIN trace :
        trace[i] = "end" => (i > 1 /\ trace[i - 1] = "decision_router")

\* C39 witness: the router decided "end" in the second turn and the end
\* node has run.
C39_Witness ==
    /\ pc = "__end__"
    /\ turns = 2
    /\ JustRan("end")
    /\ trace[Len(trace) - 1] = "decision_router"
    /\ ~state.conversation_active

====
